---------------------------- MODULE Spec2Model ----------------------------
(***************************************************************************)
(* A model of the social-media content creator: the rule-based generators  *)
(* (content_creator/nodes.py), the four-node workflow and its entry point  *)
(* (content_creator/workflow.py), the model-backed generator               *)
(* (llm_integration.py) and the enhanced workflow (enhanced_workflow.py).  *)
(*                                                                         *)
(* A Python str is a sequence of characters; a character is a one-letter   *)
(* string, and a character outside ASCII is written by its code point      *)
(* ("U+1F4A1").  None, where a str may stand, is a sequence that is no str.  *)
(***************************************************************************)
EXTENDS Integers, Sequences, FiniteSets, TLC

VARIABLES
  pc,             \* where the run is: the caller's and the workflow's position
  request,        \* the arguments of the entry point: brand_theme, days
  llm_generator,  \* EnhancedContentCreatorWorkflow.llm_generator, or None
  state,          \* the ContentState threaded through the nodes / the result
  locals,         \* _generate_with_llm's locals: topics, content_plan
  rng,            \* the state of the process-wide generator of module random
  stages,         \* history: the stages executed so far, in order
  last_call,      \* history: the last call of a generate_*_with_llm method
  method_calls,   \* history: calls of the generate_*_with_llm methods so far
  service_calls,  \* history: invocations of the completion service so far
  error,          \* the exception that reached the caller, or None
  csv_file,       \* the plans handed to save_to_csv, in order
  runs,           \* history: the calls of the entry point, in order
  filenames,      \* the filename of each call of save_to_csv, in order
  stdout          \* the files the command line reported as written

vars == << pc, request, llm_generator, state, locals, rng, stages, last_call,
           method_calls, service_calls, error, csv_file, runs, filenames, stdout >>

None == << "None" >>

-----------------------------------------------------------------------------
(* Bounds of the model.                                                    *)

\* generate_content_plan is called with at most MaxDays days.
MaxDays == 4

\* generate_enhanced_content_plan, and a generator's topics method, are
\* called with at most MaxLlmDays days.
MaxLlmDays == 3

\* The completion service answers with arrays of at most MaxElements elements.
MaxElements == 3

\* A generator used on its own has at most MaxCalls of its methods called.
MaxCalls == 2

\* The generator of module random is seeded with one of 0..MaxSeed.
MaxSeed == 2

\* A day count above the 30 topics of a category.
LongDays == 31

\* Day counts for which the topics wrap around once, and more than once.
WrapDays == 35

TwiceDays == 61

\* The number of topics of a theme the generators are called with on their
\* own, and the number of days of the plans whose entries are generated with
\* every outcome of the random source.
MaxRuleTopics == 3

MaxEntryDays == 2

\* A day count of several times the 30 topics of a category.
ManyDays == 121

-----------------------------------------------------------------------------
(* Characters and strings.                                                 *)

UpperCase ==
  << "A","B","C","D","E","F","G","H","I","J","K","L","M",
     "N","O","P","Q","R","S","T","U","V","W","X","Y","Z" >>

LowerCase ==
  << "a","b","c","d","e","f","g","h","i","j","k","l","m",
     "n","o","p","q","r","s","t","u","v","w","x","y","z" >>

Digits == << "0","1","2","3","4","5","6","7","8","9" >>

RangeOf(s) == { s[i] : i \in 1..Len(s) }

UpperSet == RangeOf(UpperCase)

LowerSet == RangeOf(LowerCase)

DigitSet == RangeOf(Digits)

\* str.lower() and str.upper() of one character, as tables.
LowerOf == [c \in UpperSet |-> LowerCase[CHOOSE i \in 1..Len(UpperCase) : UpperCase[i] = c]]

UpperOf == [c \in LowerSet |-> UpperCase[CHOOSE i \in 1..Len(LowerCase) : LowerCase[i] = c]]

lower_char(c) == IF c \in UpperSet THEN LowerOf[c] ELSE c

upper_char(c) == IF c \in LowerSet THEN UpperOf[c] ELSE c

\* The whitespace of str.split() and str.strip().
is_space(c) == c \in {" ", "\t", "\n"}

\* The class \w of module re: letters, digits and the underscore (a letter
\* outside ASCII, written by its code point, is none of the model's inputs).
WordSet == UpperSet \cup LowerSet \cup DigitSet \cup {"_"}

is_word(c) == c \in WordSet

\* str.lower()
lower(s) == [i \in 1..Len(s) |-> lower_char(s[i])]

\* str.capitalize(): the first character upper-cased, the rest lower-cased.
capitalize(s) == [i \in 1..Len(s) |-> IF i = 1 THEN upper_char(s[i]) ELSE lower_char(s[i])]

\* needle in hay
contains(hay, needle) ==
  \E i \in 0..(Len(hay) - Len(needle)) : SubSeq(hay, i + 1, i + Len(needle)) = needle

\* s.startswith(p)
startswith(s, p) == Len(s) >= Len(p) /\ SubSeq(s, 1, Len(p)) = p

\* s.replace(" ", "")
replace_space(s) == SelectSeq(s, LAMBDA c : c # " ")

\* s.replace("-", " ")
replace_hyphen(s) == [i \in 1..Len(s) |-> IF s[i] = "-" THEN " " ELSE s[i]]

\* s.strip()
RECURSIVE lstrip(_)
lstrip(s) == IF s # <<>> /\ is_space(Head(s)) THEN lstrip(Tail(s)) ELSE s

RECURSIVE rstrip(_)
rstrip(s) ==
  IF s # <<>> /\ is_space(s[Len(s)]) THEN rstrip(SubSeq(s, 1, Len(s) - 1)) ELSE s

strip(s) == rstrip(lstrip(s))

\* The length of the first run of non-whitespace characters of s.
RECURSIVE word_length(_)
word_length(s) ==
  IF s # <<>> /\ ~is_space(Head(s)) THEN 1 + word_length(Tail(s)) ELSE 0

\* s.split(): the maximal runs of non-whitespace characters, in order.
RECURSIVE split(_)
split(s) ==
  LET t == lstrip(s)
      n == word_length(t)
  IN  IF t = <<>> THEN <<>>
      ELSE <<SubSeq(t, 1, n)>> \o split(SubSeq(t, n + 1, Len(t)))

\* sep.join(words)
RECURSIVE join(_, _)
join(sep, words) ==
  IF words = <<>> THEN <<>>
  ELSE IF Len(words) = 1 THEN words[1]
  ELSE words[1] \o sep \o join(sep, Tail(words))

\* seq[:n], also for a negative n (which drops the last -n elements).
slice_to(seq, n) ==
  IF n >= 0 THEN SubSeq(seq, 1, IF n < Len(seq) THEN n ELSE Len(seq))
  ELSE SubSeq(seq, 1, Len(seq) + n)

\* list(dict.fromkeys(seq)): the first occurrence of each element, in order.
RECURSIVE fromkeys(_)
fromkeys(seq) ==
  IF seq = <<>> THEN <<>>
  ELSE LET init == fromkeys(SubSeq(seq, 1, Len(seq) - 1))
           last == seq[Len(seq)]
       IN  IF last \in RangeOf(init) THEN init ELSE Append(init, last)

-----------------------------------------------------------------------------
(* The process-wide random generator (import random, nodes.py:3).          *)
(* random.choice and random.sample draw from it through randbelow(n); the  *)
(* drawn numbers are parameters of the generators below, so that a caller  *)
(* may supply them from the generator's state or choose them freely.       *)

\* One step of the generator: a linear congruential generator stands for
\* the Mersenne Twister; like it, it is deterministic given its seed.
next_rng(r) == (r * 11 + 7) % 2521

\* randbelow(n) in the state r.
randbelow(r, n) == r % n

\* random.sample(population, 2) when the two calls of randbelow return d1
\* and d2: result[i] = pool[j]; pool[j] = pool[n - i - 1].
sample2(population, d1, d2) ==
  LET n     == Len(population)
      pool1 == [population EXCEPT ![d1 + 1] = population[n]]
  IN  << population[d1 + 1], pool1[d2 + 1] >>

-----------------------------------------------------------------------------
(* The data of content_creator/nodes.py.                                   *)

\* themes.keys(), in the dict's insertion order (nodes.py:15-64).
theme_keys ==
  << <<"F","i","t","n","e","s","s">>, <<"M","e","n","t","a","l">>, <<"B","u","s","i","n","e","s","s">>, <<"T","e","c","h","n","o","l","o","g","y">> >>

\* themes["Fitness"]: the curated topics of the category.
themes_Fitness ==
  << <<"M","o","r","n","i","n","g"," ","W","o","r","k","o","u","t"," ","R","o","u","t","i","n","e","s">>   \* Morning Workout Routines
  ,  <<"H","e","a","l","t","h","y"," ","B","r","e","a","k","f","a","s","t"," ","I","d","e","a","s">>   \* Healthy Breakfast Ideas
  ,  <<"O","f","f","i","c","e"," ","S","t","r","e","t","c","h","e","s">>   \* Office Stretches
  ,  <<"Q","u","i","c","k"," ","L","u","n","c","h"," ","W","o","r","k","o","u","t","s">>   \* Quick Lunch Workouts
  ,  <<"E","v","e","n","i","n","g"," ","R","e","l","a","x","a","t","i","o","n"," ","T","e","c","h","n","i","q","u","e","s">>   \* Evening Relaxation Techniques
  ,  <<"W","e","e","k","e","n","d"," ","F","i","t","n","e","s","s"," ","C","h","a","l","l","e","n","g","e","s">>   \* Weekend Fitness Challenges
  ,  <<"D","e","s","k"," ","Y","o","g","a"," ","P","o","s","e","s">>   \* Desk Yoga Poses
  ,  <<"H","e","a","l","t","h","y"," ","S","n","a","c","k"," ","I","d","e","a","s">>   \* Healthy Snack Ideas
  ,  <<"P","o","s","t","u","r","e"," ","C","o","r","r","e","c","t","i","o","n"," ","E","x","e","r","c","i","s","e","s">>   \* Posture Correction Exercises
  ,  <<"L","u","n","c","h"," ","B","r","e","a","k"," ","W","a","l","k","s">>   \* Lunch Break Walks
  ,  <<"S","t","a","i","r"," ","W","o","r","k","o","u","t"," ","I","d","e","a","s">>   \* Stair Workout Ideas
  ,  <<"H","e","a","l","t","h","y"," ","M","e","a","l"," ","P","r","e","p"," ","T","i","p","s">>   \* Healthy Meal Prep Tips
  ,  <<"S","t","a","n","d","i","n","g"," ","D","e","s","k"," ","E","x","e","r","c","i","s","e","s">>   \* Standing Desk Exercises
  ,  <<"M","i","n","d","f","u","l","n","e","s","s"," ","P","r","a","c","t","i","c","e","s">>   \* Mindfulness Practices
  ,  <<"H","y","d","r","a","t","i","o","n"," ","T","i","p","s">>   \* Hydration Tips
  ,  <<"Q","u","i","c","k"," ","S","t","r","e","t","c","h","e","s"," ","f","o","r"," ","B","a","c","k"," ","P","a","i","n">>   \* Quick Stretches for Back Pain
  ,  <<"H","e","a","l","t","h","y"," ","T","a","k","e","o","u","t"," ","O","p","t","i","o","n","s">>   \* Healthy Takeout Options
  ,  <<"S","l","e","e","p"," ","I","m","p","r","o","v","e","m","e","n","t"," ","T","i","p","s">>   \* Sleep Improvement Tips
  ,  <<"S","t","r","e","s","s"," ","R","e","l","i","e","f"," ","E","x","e","r","c","i","s","e","s">>   \* Stress Relief Exercises
  ,  <<"H","e","a","l","t","h","y"," ","D","e","s","s","e","r","t"," ","R","e","c","i","p","e","s">>   \* Healthy Dessert Recipes
  ,  <<"C","o","m","m","u","t","e"," ","W","o","r","k","o","u","t"," ","I","d","e","a","s">>   \* Commute Workout Ideas
  ,  <<"H","e","a","l","t","h","y"," ","G","r","o","c","e","r","y"," ","L","i","s","t">>   \* Healthy Grocery List
  ,  <<"Q","u","i","c","k"," ","W","o","r","k","o","u","t"," ","f","o","r"," ","B","u","s","y"," ","D","a","y","s">>   \* Quick Workout for Busy Days
  ,  <<"H","e","a","l","t","h","y"," ","M","e","a","l"," ","S","w","a","p","s">>   \* Healthy Meal Swaps
  ,  <<"D","e","s","k","e","r","c","i","s","e"," ","R","o","u","t","i","n","e","s">>   \* Deskercise Routines
  ,  <<"H","e","a","l","t","h","y"," ","O","f","f","i","c","e"," ","S","n","a","c","k","s">>   \* Healthy Office Snacks
  ,  <<"L","u","n","c","h"," ","B","r","e","a","k"," ","M","e","d","i","t","a","t","i","o","n">>   \* Lunch Break Meditation
  ,  <<"H","e","a","l","t","h","y"," ","D","r","i","n","k"," ","R","e","c","i","p","e","s">>   \* Healthy Drink Recipes
  ,  <<"W","e","e","k","e","n","d"," ","F","i","t","n","e","s","s"," ","G","o","a","l","s">>   \* Weekend Fitness Goals
  ,  <<"R","e","c","o","v","e","r","y"," ","T","e","c","h","n","i","q","u","e","s">>   \* Recovery Techniques
  >>

\* themes["Mental"]: the curated topics of the category.
themes_Mental ==
  << <<"D","a","i","l","y"," ","M","i","n","d","f","u","l","n","e","s","s"," ","P","r","a","c","t","i","c","e","s">>   \* Daily Mindfulness Practices
  ,  <<"S","t","r","e","s","s"," ","M","a","n","a","g","e","m","e","n","t"," ","T","e","c","h","n","i","q","u","e","s">>   \* Stress Management Techniques
  ,  <<"A","n","x","i","e","t","y"," ","C","o","p","i","n","g"," ","S","t","r","a","t","e","g","i","e","s">>   \* Anxiety Coping Strategies
  ,  <<"S","e","l","f","-","C","a","r","e"," ","S","u","n","d","a","y"," ","I","d","e","a","s">>   \* Self-Care Sunday Ideas
  ,  <<"M","e","d","i","t","a","t","i","o","n"," ","f","o","r"," ","B","e","g","i","n","n","e","r","s">>   \* Meditation for Beginners
  ,  <<"J","o","u","r","n","a","l","i","n","g"," ","P","r","o","m","p","t","s">>   \* Journaling Prompts
  ,  <<"B","r","e","a","t","h","i","n","g"," ","E","x","e","r","c","i","s","e","s">>   \* Breathing Exercises
  ,  <<"D","i","g","i","t","a","l"," ","D","e","t","o","x"," ","T","i","p","s">>   \* Digital Detox Tips
  ,  <<"P","o","s","i","t","i","v","e"," ","A","f","f","i","r","m","a","t","i","o","n","s">>   \* Positive Affirmations
  ,  <<"S","l","e","e","p"," ","H","y","g","i","e","n","e"," ","H","a","b","i","t","s">>   \* Sleep Hygiene Habits
  ,  <<"G","r","a","t","i","t","u","d","e"," ","P","r","a","c","t","i","c","e">>   \* Gratitude Practice
  ,  <<"B","o","u","n","d","a","r","y"," ","S","e","t","t","i","n","g">>   \* Boundary Setting
  ,  <<"E","m","o","t","i","o","n","a","l"," ","R","e","g","u","l","a","t","i","o","n">>   \* Emotional Regulation
  ,  <<"M","i","n","d","f","u","l"," ","E","a","t","i","n","g">>   \* Mindful Eating
  ,  <<"N","a","t","u","r","e"," ","T","h","e","r","a","p","y"," ","B","e","n","e","f","i","t","s">>   \* Nature Therapy Benefits
  ,  <<"S","o","c","i","a","l"," ","C","o","n","n","e","c","t","i","o","n"," ","T","i","p","s">>   \* Social Connection Tips
  ,  <<"C","r","e","a","t","i","v","e"," ","E","x","p","r","e","s","s","i","o","n">>   \* Creative Expression
  ,  <<"T","i","m","e"," ","M","a","n","a","g","e","m","e","n","t">>   \* Time Management
  ,  <<"P","e","r","f","e","c","t","i","o","n","i","s","m"," ","R","e","c","o","v","e","r","y">>   \* Perfectionism Recovery
  ,  <<"S","e","l","f","-","C","o","m","p","a","s","s","i","o","n"," ","E","x","e","r","c","i","s","e","s">>   \* Self-Compassion Exercises
  ,  <<"M","i","n","d","f","u","l"," ","C","o","m","m","u","n","i","c","a","t","i","o","n">>   \* Mindful Communication
  ,  <<"W","o","r","k","p","l","a","c","e"," ","W","e","l","l","n","e","s","s">>   \* Workplace Wellness
  ,  <<"S","e","a","s","o","n","a","l"," ","A","f","f","e","c","t","i","v","e"," ","D","i","s","o","r","d","e","r">>   \* Seasonal Affective Disorder
  ,  <<"T","h","e","r","a","p","y"," ","B","e","n","e","f","i","t","s">>   \* Therapy Benefits
  ,  <<"M","e","n","t","a","l"," ","H","e","a","l","t","h"," ","M","y","t","h","s">>   \* Mental Health Myths
  ,  <<"C","r","i","s","i","s"," ","R","e","s","o","u","r","c","e","s">>   \* Crisis Resources
  ,  <<"S","u","p","p","o","r","t"," ","S","y","s","t","e","m"," ","B","u","i","l","d","i","n","g">>   \* Support System Building
  ,  <<"M","i","n","d","f","u","l"," ","M","o","v","e","m","e","n","t">>   \* Mindful Movement
  ,  <<"C","o","g","n","i","t","i","v","e"," ","B","e","h","a","v","i","o","r","a","l"," ","T","e","c","h","n","i","q","u","e","s">>   \* Cognitive Behavioral Techniques
  ,  <<"M","e","n","t","a","l"," ","H","e","a","l","t","h"," ","F","i","r","s","t"," ","A","i","d">>   \* Mental Health First Aid
  >>

\* themes["Business"]: the curated topics of the category.
themes_Business ==
  << <<"M","o","r","n","i","n","g"," ","P","r","o","d","u","c","t","i","v","i","t","y"," ","R","o","u","t","i","n","e","s">>   \* Morning Productivity Routines
  ,  <<"T","i","m","e"," ","M","a","n","a","g","e","m","e","n","t"," ","H","a","c","k","s">>   \* Time Management Hacks
  ,  <<"N","e","t","w","o","r","k","i","n","g"," ","S","t","r","a","t","e","g","i","e","s">>   \* Networking Strategies
  ,  <<"L","e","a","d","e","r","s","h","i","p"," ","D","e","v","e","l","o","p","m","e","n","t">>   \* Leadership Development
  ,  <<"T","e","a","m"," ","B","u","i","l","d","i","n","g"," ","A","c","t","i","v","i","t","i","e","s">>   \* Team Building Activities
  ,  <<"G","o","a","l"," ","S","e","t","t","i","n","g"," ","F","r","a","m","e","w","o","r","k","s">>   \* Goal Setting Frameworks
  ,  <<"C","o","m","m","u","n","i","c","a","t","i","o","n"," ","S","k","i","l","l","s">>   \* Communication Skills
  ,  <<"P","r","e","s","e","n","t","a","t","i","o","n"," ","T","i","p","s">>   \* Presentation Tips
  ,  <<"E","m","a","i","l"," ","E","t","i","q","u","e","t","t","e">>   \* Email Etiquette
  ,  <<"R","e","m","o","t","e"," ","W","o","r","k"," ","B","e","s","t"," ","P","r","a","c","t","i","c","e","s">>   \* Remote Work Best Practices
  ,  <<"M","e","e","t","i","n","g"," ","E","f","f","i","c","i","e","n","c","y">>   \* Meeting Efficiency
  ,  <<"D","e","l","e","g","a","t","i","o","n"," ","T","e","c","h","n","i","q","u","e","s">>   \* Delegation Techniques
  ,  <<"C","o","n","f","l","i","c","t"," ","R","e","s","o","l","u","t","i","o","n">>   \* Conflict Resolution
  ,  <<"I","n","n","o","v","a","t","i","o","n"," ","S","t","r","a","t","e","g","i","e","s">>   \* Innovation Strategies
  ,  <<"C","u","s","t","o","m","e","r"," ","S","e","r","v","i","c","e"," ","E","x","c","e","l","l","e","n","c","e">>   \* Customer Service Excellence
  ,  <<"B","r","a","n","d"," ","B","u","i","l","d","i","n","g"," ","T","i","p","s">>   \* Brand Building Tips
  ,  <<"S","o","c","i","a","l"," ","M","e","d","i","a"," ","M","a","r","k","e","t","i","n","g">>   \* Social Media Marketing
  ,  <<"C","o","n","t","e","n","t"," ","C","r","e","a","t","i","o","n"," ","I","d","e","a","s">>   \* Content Creation Ideas
  ,  <<"F","i","n","a","n","c","i","a","l"," ","P","l","a","n","n","i","n","g">>   \* Financial Planning
  ,  <<"I","n","v","e","s","t","m","e","n","t"," ","B","a","s","i","c","s">>   \* Investment Basics
  ,  <<"E","n","t","r","e","p","r","e","n","e","u","r","s","h","i","p"," ","M","i","n","d","s","e","t">>   \* Entrepreneurship Mindset
  ,  <<"W","o","r","k","-","L","i","f","e"," ","B","a","l","a","n","c","e">>   \* Work-Life Balance
  ,  <<"P","r","o","f","e","s","s","i","o","n","a","l"," ","D","e","v","e","l","o","p","m","e","n","t">>   \* Professional Development
  ,  <<"I","n","d","u","s","t","r","y"," ","T","r","e","n","d","s">>   \* Industry Trends
  ,  <<"N","e","g","o","t","i","a","t","i","o","n"," ","S","k","i","l","l","s">>   \* Negotiation Skills
  ,  <<"P","r","o","j","e","c","t"," ","M","a","n","a","g","e","m","e","n","t">>   \* Project Management
  ,  <<"D","i","g","i","t","a","l"," ","M","a","r","k","e","t","i","n","g">>   \* Digital Marketing
  ,  <<"S","a","l","e","s"," ","T","e","c","h","n","i","q","u","e","s">>   \* Sales Techniques
  ,  <<"C","l","i","e","n","t"," ","R","e","l","a","t","i","o","n","s","h","i","p"," ","M","a","n","a","g","e","m","e","n","t">>   \* Client Relationship Management
  ,  <<"S","t","r","a","t","e","g","i","c"," ","P","l","a","n","n","i","n","g">>   \* Strategic Planning
  >>

\* themes["Technology"]: the curated topics of the category.
themes_Technology ==
  << <<"A","I"," ","T","o","o","l","s"," ","f","o","r"," ","P","r","o","d","u","c","t","i","v","i","t","y">>   \* AI Tools for Productivity
  ,  <<"C","y","b","e","r","s","e","c","u","r","i","t","y"," ","B","e","s","t"," ","P","r","a","c","t","i","c","e","s">>   \* Cybersecurity Best Practices
  ,  <<"C","l","o","u","d"," ","C","o","m","p","u","t","i","n","g"," ","B","e","n","e","f","i","t","s">>   \* Cloud Computing Benefits
  ,  <<"M","o","b","i","l","e"," ","A","p","p"," ","D","e","v","e","l","o","p","m","e","n","t">>   \* Mobile App Development
  ,  <<"W","e","b"," ","D","e","s","i","g","n"," ","T","r","e","n","d","s">>   \* Web Design Trends
  ,  <<"D","a","t","a"," ","P","r","i","v","a","c","y"," ","T","i","p","s">>   \* Data Privacy Tips
  ,  <<"S","o","c","i","a","l"," ","M","e","d","i","a"," ","S","e","c","u","r","i","t","y">>   \* Social Media Security
  ,  <<"D","i","g","i","t","a","l"," ","M","i","n","i","m","a","l","i","s","m">>   \* Digital Minimalism
  ,  <<"T","e","c","h"," ","f","o","r"," ","S","e","n","i","o","r","s">>   \* Tech for Seniors
  ,  <<"A","u","t","o","m","a","t","i","o","n"," ","T","o","o","l","s">>   \* Automation Tools
  ,  <<"P","r","o","g","r","a","m","m","i","n","g"," ","L","a","n","g","u","a","g","e","s">>   \* Programming Languages
  ,  <<"T","e","c","h"," ","C","a","r","e","e","r"," ","P","a","t","h","s">>   \* Tech Career Paths
  ,  <<"G","a","d","g","e","t"," ","R","e","v","i","e","w","s">>   \* Gadget Reviews
  ,  <<"S","o","f","t","w","a","r","e"," ","R","e","c","o","m","m","e","n","d","a","t","i","o","n","s">>   \* Software Recommendations
  ,  <<"T","e","c","h"," ","N","e","w","s"," ","U","p","d","a","t","e","s">>   \* Tech News Updates
  ,  <<"D","i","g","i","t","a","l"," ","W","e","l","l","n","e","s","s">>   \* Digital Wellness
  ,  <<"O","n","l","i","n","e"," ","L","e","a","r","n","i","n","g"," ","P","l","a","t","f","o","r","m","s">>   \* Online Learning Platforms
  ,  <<"T","e","c","h"," ","T","r","o","u","b","l","e","s","h","o","o","t","i","n","g">>   \* Tech Troubleshooting
  ,  <<"F","u","t","u","r","e"," ","T","e","c","h"," ","P","r","e","d","i","c","t","i","o","n","s">>   \* Future Tech Predictions
  ,  <<"S","t","a","r","t","u","p"," ","T","e","c","h"," ","S","t","a","c","k">>   \* Startup Tech Stack
  ,  <<"O","p","e","n"," ","S","o","u","r","c","e"," ","T","o","o","l","s">>   \* Open Source Tools
  ,  <<"T","e","c","h"," ","A","c","c","e","s","s","i","b","i","l","i","t","y">>   \* Tech Accessibility
  ,  <<"G","r","e","e","n"," ","T","e","c","h","n","o","l","o","g","y">>   \* Green Technology
  ,  <<"B","l","o","c","k","c","h","a","i","n"," ","B","a","s","i","c","s">>   \* Blockchain Basics
  ,  <<"I","o","T"," ","A","p","p","l","i","c","a","t","i","o","n","s">>   \* IoT Applications
  ,  <<"V","i","r","t","u","a","l"," ","R","e","a","l","i","t","y"," ","U","s","e","s">>   \* Virtual Reality Uses
  ,  <<"M","a","c","h","i","n","e"," ","L","e","a","r","n","i","n","g"," ","I","n","t","r","o">>   \* Machine Learning Intro
  ,  <<"T","e","c","h"," ","E","t","h","i","c","s">>   \* Tech Ethics
  ,  <<"D","i","g","i","t","a","l"," ","T","r","a","n","s","f","o","r","m","a","t","i","o","n">>   \* Digital Transformation
  ,  <<"T","e","c","h"," ","C","o","m","m","u","n","i","t","y"," ","B","u","i","l","d","i","n","g">>   \* Tech Community Building
  >>

\* base_topics: the generic list used for an unknown theme.
base_topics ==
  << <<"G","e","t","t","i","n","g"," ","S","t","a","r","t","e","d"," ","G","u","i","d","e">>   \* Getting Started Guide
  ,  <<"C","o","m","m","o","n"," ","M","i","s","t","a","k","e","s"," ","t","o"," ","A","v","o","i","d">>   \* Common Mistakes to Avoid
  ,  <<"E","x","p","e","r","t"," ","T","i","p","s">>   \* Expert Tips
  ,  <<"B","e","s","t"," ","P","r","a","c","t","i","c","e","s">>   \* Best Practices
  ,  <<"T","o","o","l","s"," ","a","n","d"," ","R","e","s","o","u","r","c","e","s">>   \* Tools and Resources
  ,  <<"S","u","c","c","e","s","s"," ","S","t","o","r","i","e","s">>   \* Success Stories
  ,  <<"T","r","o","u","b","l","e","s","h","o","o","t","i","n","g"," ","G","u","i","d","e">>   \* Troubleshooting Guide
  ,  <<"A","d","v","a","n","c","e","d"," ","T","e","c","h","n","i","q","u","e","s">>   \* Advanced Techniques
  ,  <<"I","n","d","u","s","t","r","y"," ","I","n","s","i","g","h","t","s">>   \* Industry Insights
  ,  <<"T","r","e","n","d","s"," ","a","n","d"," ","U","p","d","a","t","e","s">>   \* Trends and Updates
  ,  <<"C","o","m","m","u","n","i","t","y"," ","S","p","o","t","l","i","g","h","t">>   \* Community Spotlight
  ,  <<"Q","&","A"," ","S","e","s","s","i","o","n">>   \* Q&A Session
  ,  <<"B","e","h","i","n","d"," ","t","h","e"," ","S","c","e","n","e","s">>   \* Behind the Scenes
  ,  <<"C","a","s","e"," ","S","t","u","d","y">>   \* Case Study
  ,  <<"T","u","t","o","r","i","a","l"," ","T","u","e","s","d","a","y">>   \* Tutorial Tuesday
  ,  <<"M","y","t","h"," ","B","u","s","t","i","n","g">>   \* Myth Busting
  ,  <<"Q","u","i","c","k"," ","T","i","p","s">>   \* Quick Tips
  ,  <<"D","e","e","p"," ","D","i","v","e"," ","A","n","a","l","y","s","i","s">>   \* Deep Dive Analysis
  ,  <<"B","e","g","i","n","n","e","r","'","s"," ","G","u","i","d","e">>   \* Beginner's Guide
  ,  <<"P","r","o"," ","T","i","p","s">>   \* Pro Tips
  ,  <<"W","e","e","k","l","y"," ","R","o","u","n","d","u","p">>   \* Weekly Roundup
  ,  <<"H","o","w","-","T","o"," ","G","u","i","d","e">>   \* How-To Guide
  ,  <<"C","o","m","p","a","r","i","s","o","n"," ","R","e","v","i","e","w">>   \* Comparison Review
  ,  <<"F","u","t","u","r","e"," ","P","r","e","d","i","c","t","i","o","n","s">>   \* Future Predictions
  ,  <<"P","e","r","s","o","n","a","l"," ","E","x","p","e","r","i","e","n","c","e">>   \* Personal Experience
  ,  <<"L","e","s","s","o","n","s"," ","L","e","a","r","n","e","d">>   \* Lessons Learned
  ,  <<"R","e","s","o","u","r","c","e"," ","R","e","c","o","m","m","e","n","d","a","t","i","o","n","s">>   \* Resource Recommendations
  ,  <<"C","o","m","m","u","n","i","t","y"," ","D","i","s","c","u","s","s","i","o","n">>   \* Community Discussion
  ,  <<"E","x","p","e","r","t"," ","I","n","t","e","r","v","i","e","w">>   \* Expert Interview
  ,  <<"R","e","f","l","e","c","t","i","o","n"," ","F","r","i","d","a","y">>   \* Reflection Friday
  >>

\* theme_hashtags.keys(), in insertion order (nodes.py:139-144).
hashtag_keys ==
  << <<"f","i","t","n","e","s","s">>, <<"m","e","n","t","a","l">>, <<"b","u","s","i","n","e","s","s">>, <<"t","e","c","h","n","o","l","o","g","y">> >>

\* theme_hashtags["fitness"].
theme_hashtags_fitness ==
  << <<"F","i","t","n","e","s","s","M","o","t","i","v","a","t","i","o","n">>   \* FitnessMotivation
  ,  <<"H","e","a","l","t","h","y","L","i","f","e","s","t","y","l","e">>   \* HealthyLifestyle
  ,  <<"W","o","r","k","o","u","t","T","i","p","s">>   \* WorkoutTips
  ,  <<"F","i","t","L","i","f","e">>   \* FitLife
  ,  <<"H","e","a","l","t","h","y","H","a","b","i","t","s">>   \* HealthyHabits
  ,  <<"W","e","l","l","n","e","s","s","J","o","u","r","n","e","y">>   \* WellnessJourney
  >>

\* theme_hashtags["mental"].
theme_hashtags_mental ==
  << <<"M","e","n","t","a","l","H","e","a","l","t","h","M","a","t","t","e","r","s">>   \* MentalHealthMatters
  ,  <<"S","e","l","f","C","a","r","e">>   \* SelfCare
  ,  <<"M","i","n","d","f","u","l","n","e","s","s">>   \* Mindfulness
  ,  <<"W","e","l","l","n","e","s","s","W","e","d","n","e","s","d","a","y">>   \* WellnessWednesday
  ,  <<"M","e","n","t","a","l","W","e","l","l","n","e","s","s">>   \* MentalWellness
  ,  <<"S","e","l","f","L","o","v","e">>   \* SelfLove
  >>

\* theme_hashtags["business"].
theme_hashtags_business ==
  << <<"B","u","s","i","n","e","s","s","T","i","p","s">>   \* BusinessTips
  ,  <<"E","n","t","r","e","p","r","e","n","e","u","r","s","h","i","p">>   \* Entrepreneurship
  ,  <<"L","e","a","d","e","r","s","h","i","p">>   \* Leadership
  ,  <<"P","r","o","d","u","c","t","i","v","i","t","y","H","a","c","k","s">>   \* ProductivityHacks
  ,  <<"B","u","s","i","n","e","s","s","G","r","o","w","t","h">>   \* BusinessGrowth
  ,  <<"S","u","c","c","e","s","s">>   \* Success
  >>

\* theme_hashtags["technology"].
theme_hashtags_technology ==
  << <<"T","e","c","h","T","i","p","s">>   \* TechTips
  ,  <<"I","n","n","o","v","a","t","i","o","n">>   \* Innovation
  ,  <<"D","i","g","i","t","a","l","L","i","f","e">>   \* DigitalLife
  ,  <<"T","e","c","h","T","r","e","n","d","s">>   \* TechTrends
  ,  <<"F","u","t","u","r","e","T","e","c","h">>   \* FutureTech
  ,  <<"T","e","c","h","C","o","m","m","u","n","i","t","y">>   \* TechCommunity
  >>

\* general_hashtags: tags that work for any theme.
general_hashtags ==
  << <<"M","o","t","i","v","a","t","i","o","n">>   \* Motivation
  ,  <<"T","i","p","s">>   \* Tips
  ,  <<"G","r","o","w","t","h">>   \* Growth
  ,  <<"S","u","c","c","e","s","s">>   \* Success
  ,  <<"C","o","m","m","u","n","i","t","y">>   \* Community
  ,  <<"I","n","s","p","i","r","a","t","i","o","n">>   \* Inspiration
  ,  <<"G","o","a","l","s">>   \* Goals
  ,  <<"P","r","o","g","r","e","s","s">>   \* Progress
  >>

\* templates: the 12 caption templates (nodes.py:118-131), each the
\* concatenation of its literal pieces and its interpolated fields;
\* templates[k - 1], for k in 1..12.
template(k, topic, theme) ==
  \* U+1F4A1 {topic}: Your {theme_lower} game-changer! Ready to level up? Let's dive in! U+1F680
  CASE k = 1 -> <<"U+1F4A1"," ">> \o topic \o <<":"," ","Y","o","u","r"," ">> \o lower(theme) \o <<" ","g","a","m","e","-","c","h","a","n","g","e","r","!"," ","R","e","a","d","y"," ","t","o"," ","l","e","v","e","l"," ","u","p","?"," ","L","e","t","'","s"," ","d","i","v","e"," ","i","n","!"," ","U+1F680">>
  \* U+1F31F Today's spotlight: {topic}. Small steps, big results in your {theme_lower} journey! U+2728
    [] k = 2 -> <<"U+1F31F"," ","T","o","d","a","y","'","s"," ","s","p","o","t","l","i","g","h","t",":"," ">> \o topic \o <<"."," ","S","m","a","l","l"," ","s","t","e","p","s",","," ","b","i","g"," ","r","e","s","u","l","t","s"," ","i","n"," ","y","o","u","r"," ">> \o lower(theme) \o <<" ","j","o","u","r","n","e","y","!"," ","U+2728">>
  \* U+1F525 {topic} - the secret sauce to crushing your {theme_lower} goals! Who's ready to try this? U+1F4AA
    [] k = 3 -> <<"U+1F525"," ">> \o topic \o <<" ","-"," ","t","h","e"," ","s","e","c","r","e","t"," ","s","a","u","c","e"," ","t","o"," ","c","r","u","s","h","i","n","g"," ","y","o","u","r"," ">> \o lower(theme) \o <<" ","g","o","a","l","s","!"," ","W","h","o","'","s"," ","r","e","a","d","y"," ","t","o"," ","t","r","y"," ","t","h","i","s","?"," ","U+1F4AA">>
  \* U+2728 Transform your routine with {topic}! Your future self will thank you U+1F64F #{theme.replace(' ', '')}
    [] k = 4 -> <<"U+2728"," ","T","r","a","n","s","f","o","r","m"," ","y","o","u","r"," ","r","o","u","t","i","n","e"," ","w","i","t","h"," ">> \o topic \o <<"!"," ","Y","o","u","r"," ","f","u","t","u","r","e"," ","s","e","l","f"," ","w","i","l","l"," ","t","h","a","n","k"," ","y","o","u"," ","U+1F64F"," ","#">> \o replace_space(theme)
  \* U+1F3AF Focus Friday: {topic}. Because consistency in {theme_lower} creates magic! U+2728
    [] k = 5 -> <<"U+1F3AF"," ","F","o","c","u","s"," ","F","r","i","d","a","y",":"," ">> \o topic \o <<"."," ","B","e","c","a","u","s","e"," ","c","o","n","s","i","s","t","e","n","c","y"," ","i","n"," ">> \o lower(theme) \o <<" ","c","r","e","a","t","e","s"," ","m","a","g","i","c","!"," ","U+2728">>
  \* U+1F4AA {topic} isn't just a tip - it's your pathway to {theme_lower} success! Let's go! U+1F680
    [] k = 6 -> <<"U+1F4AA"," ">> \o topic \o <<" ","i","s","n","'","t"," ","j","u","s","t"," ","a"," ","t","i","p"," ","-"," ","i","t","'","s"," ","y","o","u","r"," ","p","a","t","h","w","a","y"," ","t","o"," ">> \o lower(theme) \o <<" ","s","u","c","c","e","s","s","!"," ","L","e","t","'","s"," ","g","o","!"," ","U+1F680">>
  \* U+1F331 Growing stronger every day with {topic}. Your {theme_lower} journey matters! U+1F49A
    [] k = 7 -> <<"U+1F331"," ","G","r","o","w","i","n","g"," ","s","t","r","o","n","g","e","r"," ","e","v","e","r","y"," ","d","a","y"," ","w","i","t","h"," ">> \o topic \o <<"."," ","Y","o","u","r"," ">> \o lower(theme) \o <<" ","j","o","u","r","n","e","y"," ","m","a","t","t","e","r","s","!"," ","U+1F49A">>
  \* U+26A1 Power up your {theme_lower} with {topic}! Simple changes, powerful results U+1F525
    [] k = 8 -> <<"U+26A1"," ","P","o","w","e","r"," ","u","p"," ","y","o","u","r"," ">> \o lower(theme) \o <<" ","w","i","t","h"," ">> \o topic \o <<"!"," ","S","i","m","p","l","e"," ","c","h","a","n","g","e","s",","," ","p","o","w","e","r","f","u","l"," ","r","e","s","u","l","t","s"," ","U+1F525">>
  \* U+1F389 Celebrating progress with {topic}! Every step counts in your {theme_lower} story U+1F4C8
    [] k = 9 -> <<"U+1F389"," ","C","e","l","e","b","r","a","t","i","n","g"," ","p","r","o","g","r","e","s","s"," ","w","i","t","h"," ">> \o topic \o <<"!"," ","E","v","e","r","y"," ","s","t","e","p"," ","c","o","u","n","t","s"," ","i","n"," ","y","o","u","r"," ">> \o lower(theme) \o <<" ","s","t","o","r","y"," ","U+1F4C8">>
  \* U+1F9E0 Smart strategy: {topic}. Work smarter, not harder in your {theme_lower} journey! U+1F4A1
    [] k = 10 -> <<"U+1F9E0"," ","S","m","a","r","t"," ","s","t","r","a","t","e","g","y",":"," ">> \o topic \o <<"."," ","W","o","r","k"," ","s","m","a","r","t","e","r",","," ","n","o","t"," ","h","a","r","d","e","r"," ","i","n"," ","y","o","u","r"," ">> \o lower(theme) \o <<" ","j","o","u","r","n","e","y","!"," ","U+1F4A1">>
  \* U+1F308 Brighten your day with {topic}! Making {theme_lower} fun and sustainable U+1F60A
    [] k = 11 -> <<"U+1F308"," ","B","r","i","g","h","t","e","n"," ","y","o","u","r"," ","d","a","y"," ","w","i","t","h"," ">> \o topic \o <<"!"," ","M","a","k","i","n","g"," ">> \o lower(theme) \o <<" ","f","u","n"," ","a","n","d"," ","s","u","s","t","a","i","n","a","b","l","e"," ","U+1F60A">>
  \* U+2B50 Pro tip: {topic} is your secret weapon for {theme_lower} success! Ready to shine? U+2728
    [] k = 12 -> <<"U+2B50"," ","P","r","o"," ","t","i","p",":"," ">> \o topic \o <<" ","i","s"," ","y","o","u","r"," ","s","e","c","r","e","t"," ","w","e","a","p","o","n"," ","f","o","r"," ">> \o lower(theme) \o <<" ","s","u","c","c","e","s","s","!"," ","R","e","a","d","y"," ","t","o"," ","s","h","i","n","e","?"," ","U+2728">>

\* len(templates)
templates_len == 12
-----------------------------------------------------------------------------
(* The rule-based generators of content_creator/nodes.py.                  *)

\* The topics of a category key.
themes(key) ==
  CASE key = theme_keys[1] -> themes_Fitness
    [] key = theme_keys[2] -> themes_Mental
    [] key = theme_keys[3] -> themes_Business
    [] key = theme_keys[4] -> themes_Technology

\* The hashtag pool of a category key.
theme_hashtags(key) ==
  CASE key = hashtag_keys[1] -> theme_hashtags_fitness
    [] key = hashtag_keys[2] -> theme_hashtags_mental
    [] key = hashtag_keys[3] -> theme_hashtags_business
    [] key = hashtag_keys[4] -> theme_hashtags_technology

\* key.lower() of each key of themes.
theme_keys_lower == [i \in 1..Len(theme_keys) |-> lower(theme_keys[i])]

\* A faulty variant of the search below: the case of the theme is kept.
find_theme_key_cased(theme) ==
  LET matches == { i \in 1..Len(theme_keys) : contains(theme, theme_keys_lower[i]) }
  IN  IF matches = {} THEN None
      ELSE theme_keys[CHOOSE i \in matches : \A j \in matches : i <= j]

\* for key in themes.keys(): if key.lower() in theme_lower: theme_key = key;
\* break.  The first matching key, or None.
find_theme_key(theme) ==
  LET theme_lower == lower(theme)
      matches == { i \in 1..Len(theme_keys) : contains(theme_lower, theme_keys_lower[i]) }
  IN  IF matches = {} THEN None
      ELSE theme_keys[CHOOSE i \in matches : \A j \in matches : i <= j]

\* A faulty variant of the statements below: one topic too few is taken.
extend_topics_short(topics, pool, num_days) ==
  topics \o slice_to(pool, num_days - Len(topics) - 1)

\* One turn of the loop: remaining = num_days - len(topics);
\* topics.extend(pool[:remaining])
extend_topics(topics, pool, num_days) ==
  topics \o slice_to(pool, num_days - Len(topics))

\* A faulty variant of the loop below: the list is taken up again at its
\* second topic.
cycle_topics_second(topics, pool, num_days) ==
  topics \o [i \in 1..(IF num_days > Len(topics) THEN num_days - Len(topics) ELSE 0) |->
              pool[(i % Len(pool)) + 1]]

\* A faulty variant of the loop below: the topics are not cycled.
cycle_topics_once(topics, pool, num_days) == topics

\* while len(topics) < num_days: topics.extend(pool[:num_days - len(topics)])
RECURSIVE cycle_topics(_, _, _)
cycle_topics(topics, pool, num_days) ==
  IF Len(topics) < num_days
    THEN cycle_topics(topics \o slice_to(pool, num_days - Len(topics)), pool, num_days)
    ELSE topics

\* A faulty variant of the loop below: the theme is left out of the topic.
fallback_unknown_plain(theme, num_days) ==
  [i \in 1..(IF num_days > 0 THEN num_days ELSE 0) |->
     base_topics[((i - 1) % Len(base_topics)) + 1]]

\* for i in range(num_days): topics.append(f"{theme}: {base_topics[i % 30]}")
fallback_unknown(theme, num_days) ==
  [i \in 1..(IF num_days > 0 THEN num_days ELSE 0) |->
     theme \o <<":", " ">> \o base_topics[((i - 1) % Len(base_topics)) + 1]]

generate_topic_ideas(theme, num_days) ==
  LET theme_key == find_theme_key(theme)
  IN  IF theme_key # None
        THEN slice_to(cycle_topics(slice_to(themes(theme_key), num_days),
                                   themes(theme_key), num_days), num_days)
        ELSE fallback_unknown(theme, num_days)

\* day_planner_node: the update {"topics": topics} merged into the state.
day_planner_node(st) ==
  [st EXCEPT !.topics = generate_topic_ideas(st.brand_theme, st.days)]

\* generate_caption when random.choice draws d.
generate_caption(topic, theme, d) == template(d + 1, topic, theme)

\* "".join(word.capitalize() for word in topic.replace("-", " ").split())
topic_clean(topic) ==
  LET words == split(replace_hyphen(topic))
  IN  join(<<>>, [i \in 1..Len(words) |-> capitalize(words[i])])

\* A faulty variant of the search below: the last matching key is taken.
find_hashtag_key_last(theme) ==
  LET theme_lower == lower(theme)
      matches == { i \in 1..Len(hashtag_keys) : contains(theme_lower, hashtag_keys[i]) }
  IN  IF matches = {} THEN None
      ELSE hashtag_keys[CHOOSE i \in matches : \A j \in matches : i >= j]

\* for theme_key, theme_tags in theme_hashtags.items():
\*   if theme_key in theme_lower: ...; break
find_hashtag_key(theme) ==
  LET theme_lower == lower(theme)
      matches == { i \in 1..Len(hashtag_keys) : contains(theme_lower, hashtag_keys[i]) }
  IN  IF matches = {} THEN None
      ELSE hashtag_keys[CHOOSE i \in matches : \A j \in matches : i <= j]

\* A faulty variant of the list below: the sampled tags come first.
collect_hashtags_sampled_first(topic, theme, d) ==
  LET key       == find_hashtag_key(theme)
      clean     == topic_clean(topic)
      themeTag  == << replace_space(theme) >>
      topicTag  == IF Len(clean) <= 20 THEN << clean >> ELSE <<>>
      themeTags == IF key # None THEN sample2(theme_hashtags(key), d[1], d[2]) ELSE <<>>
  IN  themeTags \o sample2(general_hashtags, d[3], d[4]) \o themeTag \o topicTag

\* The tags collected before formatting, when random.sample draws d[1], d[2]
\* from the category's pool (if a category matches) and d[3], d[4] from the
\* general pool.
collect_hashtags(topic, theme, d) ==
  LET key       == find_hashtag_key(theme)
      clean     == topic_clean(topic)
      themeTag  == << replace_space(theme) >>
      topicTag  == IF Len(clean) <= 20 THEN << clean >> ELSE <<>>
      themeTags == IF key # None THEN sample2(theme_hashtags(key), d[1], d[2]) ELSE <<>>
  IN  themeTag \o topicTag \o themeTags \o sample2(general_hashtags, d[3], d[4])

\* A faulty variant of the filter below: short tags are kept.
unique_hashtags_unfiltered(hashtags) ==
  LET kept == SelectSeq(hashtags, LAMBDA tag : tag # <<>>)
  IN  fromkeys([i \in 1..Len(kept) |-> <<"#">> \o kept[i]])

\* list(dict.fromkeys([f"#{tag}" for tag in hashtags if tag and len(tag) > 2]))
unique_hashtags(hashtags) ==
  LET kept == SelectSeq(hashtags, LAMBDA tag : tag # <<>> /\ Len(tag) > 2)
  IN  fromkeys([i \in 1..Len(kept) |-> <<"#">> \o kept[i]])

\* A faulty variant of the function below: the theme's own hashtag only.
generate_hashtags_theme_only(topic, theme, d) ==
  join(<<" ">>, slice_to(unique_hashtags(<< replace_space(theme) >>), 5))

\* generate_hashtags: " ".join(unique_hashtags[:5])
generate_hashtags(topic, theme, d) ==
  join(<<" ">>, slice_to(unique_hashtags(collect_hashtags(topic, theme, d)), 5))

\* A faulty variant of the draw below: it also depends on the number of plans
\* saved so far.
caption_draw_drifting(r) ==
  LET r1 == next_rng(r)
  IN  [d |-> randbelow(r1 + Len(csv_file), templates_len), rng |-> r1]

\* random.choice(templates) in the generator's state r: the number drawn and
\* the state after.
caption_draw(r) ==
  LET r1 == next_rng(r)
  IN  [d |-> randbelow(r1, templates_len), rng |-> r1]

\* The two calls of random.sample in generate_hashtags(topic, theme) in the
\* generator's state r: the numbers drawn and the state after.  The category
\* pool is sampled, and the generator advanced for it, only if a key matches.
hashtag_draws(theme, r) ==
  LET key == find_hashtag_key(theme)
      r1  == next_rng(r)
      r2  == next_rng(r1)
      r3  == next_rng(r2)
      r4  == next_rng(r3)
      g   == Len(general_hashtags)
  IN  IF key # None
        THEN [d   |-> << randbelow(r1, Len(theme_hashtags(key))),
                         randbelow(r2, Len(theme_hashtags(key)) - 1),
                         randbelow(r3, g), randbelow(r4, g - 1) >>,
              rng |-> r4]
        ELSE [d   |-> << 0, 0, randbelow(r1, g), randbelow(r2, g - 1) >>,
              rng |-> r2]

\* A faulty variant of the entry below: the days are counted from 0.
Entry_zero_based(day, topic, caption, hashtags) ==
  [Day |-> day - 1, Topic |-> topic, Caption |-> caption, Hashtags |-> hashtags]

\* One ContentEntry.
Entry(day, topic, caption, hashtags) ==
  [Day |-> day, Topic |-> topic, Caption |-> caption, Hashtags |-> hashtags]

\* The body of content_generator_node's loop when random.choice draws c and
\* the calls of random.sample draw d.
content_entry(day, topic, theme, c, d) ==
  Entry(day, topic, generate_caption(topic, theme, c), generate_hashtags(topic, theme, d))

\* content_generator_node's loop from topic i on, with the generator in state
\* r: the plan and the generator's state after the loop.
RECURSIVE generate_entries(_, _, _, _, _)
generate_entries(topics, theme, i, plan, r) ==
  IF i > Len(topics) THEN [content_plan |-> plan, rng |-> r]
  ELSE LET c == caption_draw(r)
           h == hashtag_draws(theme, c.rng)
       IN  generate_entries(topics, theme, i + 1,
             Append(plan, content_entry(i, topics[i], theme, c.d, h.d)),
             h.rng)

\* content_generator_node with the generator of module random in state r:
\* the update {"content_plan": content_plan} merged into the state, and the
\* generator's state after.
content_generator_node(st, r) ==
  LET g == generate_entries(st.topics, st.brand_theme, 1, <<>>, r)
  IN  [state |-> [st EXCEPT !.content_plan = g.content_plan], rng |-> g.rng]

\* A faulty variant of the node below: it keeps the first entry only.
formatter_node_trimming(st) == [st EXCEPT !.content_plan = slice_to(@, 1)]

\* formatter_node and save_node return the state as it is.
formatter_node(st) == st

save_node(st) == st

-----------------------------------------------------------------------------
(* The completion service and the parsing of its responses                 *)
(* (llm_integration.py).  A response is the text of choices[0], or Raise   *)
(* when the call of self.llm or the access to the text raises.             *)

Response(text) == [raised |-> FALSE, text |-> text]

\* No exception.
NoError == "no error"

Raise == [raised |-> TRUE, text |-> <<>>]

\* What a try block returns: a value, or nothing (it fell through or raised).
Accepted(value) == [ok |-> TRUE, value |-> value]

Rejected == [ok |-> FALSE, value |-> <<>>]

\* re.search(r'\[.*\]', text, re.DOTALL).group(): from the first "[" to the
\* last "]" after it, or None.
search_array(text) ==
  LET opens  == { i \in 1..Len(text) : text[i] = "[" }
      closes == { i \in 1..Len(text) : text[i] = "]" }
      first  == CHOOSE i \in opens : \A j \in opens : i <= j
      last   == CHOOSE i \in closes : \A j \in closes : j <= i
  IN  IF opens # {} /\ closes # {} /\ first < last
        THEN SubSeq(text, first, last)
        ELSE None

\* json.loads on the texts of the model, whose characters are brackets,
\* quotes, commas, blanks, letters and the digits 1 to 9 (no escape, sign,
\* fraction, exponent or object).  A parsed value is [kind, text] with kind
\* "str" (and its text), "num", "lit" or "list"; a parse result is
\* [ok, value, rest], and not ok stands for JSONDecodeError.
parse_error == [ok |-> FALSE, value |-> [kind |-> "none", text |-> <<>>], items |-> <<>>, rest |-> <<>>]

parse_ok(kind, text, items, rest) ==
  [ok |-> TRUE, value |-> [kind |-> kind, text |-> text], items |-> items, rest |-> rest]

json_literals ==
  { <<"n","u","l","l">>, <<"t","r","u","e">>, <<"f","a","l","s","e">> }

\* The length of the first run of digits of s.
RECURSIVE digits_length(_)
digits_length(s) ==
  IF s # <<>> /\ Head(s) \in DigitSet THEN 1 + digits_length(Tail(s)) ELSE 0

\* A string: from the opening quote to the next quote; a control character
\* inside it is an error.
parse_string(s) ==
  LET quotes == { i \in 2..Len(s) : s[i] = "\"" }
      close  == CHOOSE i \in quotes : \A j \in quotes : i <= j
      body   == SubSeq(s, 2, close - 1)
  IN  IF quotes = {} \/ \E i \in 1..Len(body) : body[i] \in {"\t", "\n"}
        THEN parse_error
        ELSE parse_ok("str", body, <<>>, SubSeq(s, close + 1, Len(s)))

RECURSIVE parse_value(_)
RECURSIVE parse_items(_, _)

\* The elements of an array after its "[" (first) or after a "," (not first).
parse_items(s, first) ==
  LET t == lstrip(s)
  IN  IF t = <<>> THEN parse_error
      ELSE IF first /\ Head(t) = "]" THEN parse_ok("list", <<>>, <<>>, Tail(t))
      ELSE LET v == parse_value(t)
               u == lstrip(v.rest)
           IN  IF ~v.ok \/ u = <<>> THEN parse_error
               ELSE IF Head(u) = "]" THEN parse_ok("list", <<>>, <<v.value>>, Tail(u))
               ELSE IF Head(u) = ","
                 THEN LET more == parse_items(Tail(u), FALSE)
                      IN  IF more.ok
                            THEN parse_ok("list", <<>>, <<v.value>> \o more.items, more.rest)
                            ELSE parse_error
               ELSE parse_error

parse_value(s) ==
  LET t == lstrip(s)
  IN  IF t = <<>> THEN parse_error
      ELSE IF Head(t) = "\"" THEN parse_string(t)
      ELSE IF Head(t) = "[" THEN
        LET a == parse_items(Tail(t), TRUE)
        IN  IF a.ok THEN parse_ok("list", <<>>, <<>>, a.rest) ELSE parse_error
      ELSE IF Head(t) \in DigitSet THEN
        parse_ok("num", <<>>, <<>>, SubSeq(t, digits_length(t) + 1, Len(t)))
      ELSE IF \E w \in json_literals : startswith(t, w) THEN
        LET w == CHOOSE w \in json_literals : startswith(t, w)
        IN  parse_ok("lit", <<>>, <<>>, SubSeq(t, Len(w) + 1, Len(t)))
      ELSE parse_error

\* json.loads(topics_json) of a text that starts with "[": the list's
\* elements; trailing text after the value is an error.
json_loads(text) ==
  LET a == parse_items(Tail(text), TRUE)
  IN  IF a.ok /\ lstrip(a.rest) = <<>>
        THEN [ok |-> TRUE, items |-> a.items]
        ELSE [ok |-> FALSE, items |-> <<>>]

\* clean_topics: for topic in topics[:num_days]: if isinstance(topic, str)
\* and len(topic.strip()) > 0: clean_topics.append(topic.strip())
clean_topics(items, num_days) ==
  LET head == slice_to(items, num_days)
      kept == SelectSeq(head, LAMBDA v : v.kind = "str" /\ Len(strip(v.text)) > 0)
  IN  [i \in 1..Len(kept) |-> strip(kept[i].text)]

\* The topics the try block of generate_topics_with_llm returns; nothing
\* when there is no array, when there are too few topics or when it raises.
accepted_topics(resp, num_days) ==
  IF resp.raised THEN Rejected
  ELSE LET topics_json == search_array(strip(resp.text))
       IN  IF topics_json = None THEN Rejected
           ELSE LET topics == json_loads(topics_json)
                    clean  == clean_topics(topics.items, num_days)
                IN  IF topics.ok /\ Len(clean) >= num_days \div 2
                      THEN Accepted(slice_to(clean, num_days))
                      ELSE Rejected

\* _fallback_topics
fallback_topics(theme, num_days) == generate_topic_ideas(theme, num_days)

\* What a method of the generator hands back: its result, the state of the
\* generator of module random after it, the number of invocations of self.llm
\* and the exception that leaves it (none: except Exception catches them all).
Returned(result, r, calls) ==
  [result |-> result, rng |-> r, calls |-> calls, error |-> NoError]

\* generate_topics_with_llm of a generator with the given use_llm, when the
\* completion service answers resp.
generate_topics_with_llm(use_llm, theme, num_days, resp, r) ==
  IF ~use_llm THEN Returned(fallback_topics(theme, num_days), r, 0)
  ELSE LET accepted == accepted_topics(resp, num_days)
       IN  IF accepted.ok
             THEN Returned(accepted.value, r, 1)
             ELSE Returned(fallback_topics(theme, num_days), r, 1)

\* ' '.join([word for word in caption.split() if not word.startswith('#')])
strip_hashtags(caption) ==
  join(<<" ">>, SelectSeq(split(caption), LAMBDA word : ~startswith(word, <<"#">>)))

\* The caption the try block of generate_caption_with_llm returns, if any.
accepted_caption(resp) ==
  IF resp.raised THEN Rejected
  ELSE LET caption == strip(resp.text)
       IN  IF caption # <<>> /\ Len(caption) > 10
             THEN Accepted(strip_hashtags(caption))
             ELSE Rejected

\* _fallback_caption, with the generator of module random in state r.
fallback_caption(topic, theme, r) ==
  [result |-> generate_caption(topic, theme, caption_draw(r).d), rng |-> caption_draw(r).rng]

\* A faulty variant of the method below: use_llm is not looked at.
generate_caption_with_llm_unguarded(use_llm, topic, theme, resp, r) ==
  IF accepted_caption(resp).ok
    THEN Returned(accepted_caption(resp).value, r, 1)
    ELSE Returned(fallback_caption(topic, theme, r).result, fallback_caption(topic, theme, r).rng, 1)

\* generate_caption_with_llm of a generator with the given use_llm, when the
\* completion service answers resp and module random is in state r.
generate_caption_with_llm(use_llm, topic, theme, resp, r) ==
  IF ~use_llm
    THEN Returned(fallback_caption(topic, theme, r).result, fallback_caption(topic, theme, r).rng, 0)
  ELSE IF accepted_caption(resp).ok
    THEN Returned(accepted_caption(resp).value, r, 1)
    ELSE Returned(fallback_caption(topic, theme, r).result, fallback_caption(topic, theme, r).rng, 1)

\* The length of the first run of \w characters of s.
RECURSIVE word_chars_length(_)
word_chars_length(s) ==
  IF s # <<>> /\ is_word(Head(s)) THEN 1 + word_chars_length(Tail(s)) ELSE 0

\* re.findall(r'#\w+', s): the non-overlapping matches, scanning from the left.
RECURSIVE findall_hashtags(_)
findall_hashtags(s) ==
  IF s = <<>> THEN <<>>
  ELSE LET n == word_chars_length(Tail(s))
       IN  IF Head(s) = "#" /\ n > 0
             THEN <<SubSeq(s, 1, n + 1)>> \o findall_hashtags(SubSeq(s, n + 2, Len(s)))
             ELSE findall_hashtags(Tail(s))

\* A faulty variant of the try block below: two hashtags are enough.
accepted_hashtags_two(resp) ==
  IF resp.raised THEN Rejected
  ELSE LET hashtags == strip(resp.text)
           hashtag_matches == findall_hashtags(hashtags)
       IN  IF hashtags # <<>> /\ Len(hashtag_matches) >= 2
             THEN Accepted(join(<<" ">>, slice_to(hashtag_matches, 5)))
             ELSE Rejected

\* The hashtags the try block of generate_hashtags_with_llm returns, if any.
accepted_hashtags(resp) ==
  IF resp.raised THEN Rejected
  ELSE LET hashtags == strip(resp.text)
           hashtag_matches == findall_hashtags(hashtags)
       IN  IF hashtags # <<>> /\ Len(hashtag_matches) >= 3
             THEN Accepted(join(<<" ">>, slice_to(hashtag_matches, 5)))
             ELSE Rejected

\* _fallback_hashtags, with the generator of module random in state r.
fallback_hashtags(topic, theme, r) ==
  [result |-> generate_hashtags(topic, theme, hashtag_draws(theme, r).d),
   rng |-> hashtag_draws(theme, r).rng]

\* A faulty variant of the method below: without its except clause, the
\* exception of the completion service leaves the method.
generate_hashtags_with_llm_uncaught(use_llm, topic, theme, resp, r) ==
  IF ~use_llm
    THEN Returned(fallback_hashtags(topic, theme, r).result, fallback_hashtags(topic, theme, r).rng, 0)
  ELSE IF resp.raised
    THEN [result |-> <<>>, rng |-> r, calls |-> 1, error |-> "Exception"]
  ELSE IF accepted_hashtags(resp).ok
    THEN Returned(accepted_hashtags(resp).value, r, 1)
    ELSE Returned(fallback_hashtags(topic, theme, r).result, fallback_hashtags(topic, theme, r).rng, 1)

\* generate_hashtags_with_llm of a generator with the given use_llm, when the
\* completion service answers resp and module random is in state r.
generate_hashtags_with_llm(use_llm, topic, theme, resp, r) ==
  IF ~use_llm
    THEN Returned(fallback_hashtags(topic, theme, r).result, fallback_hashtags(topic, theme, r).rng, 0)
  ELSE IF accepted_hashtags(resp).ok
    THEN Returned(accepted_hashtags(resp).value, r, 1)
    ELSE Returned(fallback_hashtags(topic, theme, r).result, fallback_hashtags(topic, theme, r).rng, 1)

\* LLMContentGenerator.__init__: the model is loaded only if a path is given
\* and exists; use_llm is set only if the load does not raise.
\* llm tells whether self.llm holds a model; loads is history, the number of
\* calls of Llama(...).
LLMContentGenerator(model_path, exists, load_ok) ==
  LET attempted == model_path # None /\ model_path # <<>> /\ exists
  IN  [created    |-> TRUE,
       model_path |-> model_path,
       llm        |-> attempted /\ load_ok,
       loads      |-> IF attempted THEN 1 ELSE 0,
       use_llm    |-> attempted /\ load_ok]

\* create_llm_generator(model_path), auto_download being False.
create_llm_generator(model_path, exists, load_ok) ==
  LLMContentGenerator(model_path, exists, load_ok)

-----------------------------------------------------------------------------
(* The inputs of the model.                                                *)

\* The brand themes: one of a known category, two of none (one of them of
\* two characters).
Themes ==
  { <<"F","i","t","n","e","s","s"," ","T","i","p","s">>,
    <<"M","y"," ","B","r","a","n","d">>,
    <<"A","I">> }

\* The day counts generate_content_plan is called with: the small ones and
\* one beyond the 30 topics of a category, for which the topics are cycled.
DayCounts == ((0 - 1)..MaxDays) \cup { LongDays }

\* The day counts generate_enhanced_content_plan is called with.
EnhancedDayCounts == 0..MaxLlmDays

\* The model paths handed to the generator: none, or a path.
ModelPaths == { None, <<"m",".","g","g","u","f">> }

\* Texts of one element of a JSON array: "A", " B " (to be stripped) and a
\* number.
ElementTexts ==
  << <<"\"","A","\"">>, <<"\""," ","B"," ","\"">>, <<"7">> >>

\* "[" e1 ", " e2 ... "]" for the elements numbered by idx.
RECURSIVE array_body(_)
array_body(idx) ==
  IF idx = <<>> THEN <<>>
  ELSE IF Len(idx) = 1 THEN ElementTexts[idx[1]]
  ELSE ElementTexts[idx[1]] \o <<",", " ">> \o array_body(Tail(idx))

array_text(idx) == <<"[">> \o array_body(idx) \o <<"]">>

\* The arrays of at most MaxElements elements.
ArrayTexts ==
  { array_text(idx) : idx \in UNION { [1..n -> 1..Len(ElementTexts)] : n \in 0..MaxElements } }

\* Texts that hold no array, or none that json.loads accepts as it is found.
MalformedTexts ==
  { <<>>,
    <<" "," "," ">>,
    <<"S","u","r","e","!"," ","H","e","r","e"," ","a","r","e"," ","t","o","p","i","c","s">>,
    <<"]"," ","[">>,
    <<"[","\"","A","\"">>,
    <<"[","\"","A","\"",",","]">>,
    <<"[","\"","A","\""," ","\"","A","\"","]">>,
    <<"[","A","]">>,
    <<"[","\"","A","\"","]"," ","a","n","d"," ","[","\"","A","\"","]">>,
    <<"[","[","7","]","]">>,
    <<"[","n","u","l","l","]">> }

\* Arrays of strings that are empty or blank: [""] and [" ", ""].
BlankArrayTexts ==
  { <<"[","\"","\"","]">>,
    <<"[","\""," ","\"",","," ","\"","\"","]">> }

\* An array inside other text.
WrappedTexts ==
  { <<"T","o","p","i","c","s",":"," ","[","\"","A","\"",","," ","\"","A","\"","]"," ","d","o","n","e">> }

\* What the completion service may answer to the topics prompt.
TopicsResponses ==
  {Raise} \cup { Response(t) : t \in ArrayTexts \cup BlankArrayTexts \cup MalformedTexts \cup WrappedTexts }

\* What the completion service may answer to the caption prompt.
CaptionResponses ==
  {Raise} \cup
  { Response(t) : t \in
    { <<>>,
      <<" "," "," "," ">>,
      <<"T","o","o"," ","s","h","o","r","t">>,
      <<"a","b","c","d","e","f","g","h","i","j">>,
      <<"a","b","c","d","e","f","g","h","i","j","k">>,
      <<" "," ","T","r","y"," ","t","h","i","s"," ","t","o","d","a","y","!"," "," ">>,
      <<"S","t","a","y"," ","f","i","t"," ","#","g","y","m"," ","n","o","w">>,
      <<"a","b"," ","#","c","d","e","f","g","h","i","j","k","l","m","n","o","p">>,
      <<"#","f","i","t","n","e","s","s"," ","#","h","e","a","l","t","h">> } }

\* What the completion service may answer to the hashtags prompt.
HashtagsResponses ==
  {Raise} \cup
  { Response(t) : t \in
    { <<>>,
      <<"n","o"," ","t","a","g","s"," ","h","e","r","e">>,
      <<"#","a"," ","#","b">>,
      <<"#","o","n","e"," ","#","t","w","o">>,
      <<"#","o","n","e"," ","#","t","w","o"," ","#","t","h","r","e","e">>,
      <<"#","a","b"," ","#","a","b"," ","#","a","b">>,
      <<"#","a","#","b","#","c">>,
      <<"#","#","a"," ","#","b","!"," ","#","c","_","d"," ","#","e"," ","#","f"," ","#","g">>,
      <<"T","a","g","s",":"," ","#","p","1"," ","#","p","2"," ","#","p","3"," ","#","p","4"," ","#","p","5"," ","#","p","6"," ","#","p","7">> } }

\* The answers a whole run of the enhanced workflow is checked with.
RunCaptionResponses ==
  { Raise, Response(<<"T","r","y"," ","t","h","i","s"," ","t","o","d","a","y","!">>) }

RunHashtagsResponses ==
  { Raise, Response(<<"#","a","b"," ","#","a","b"," ","#","a","b">>) }

-----------------------------------------------------------------------------
(* The workflow (content_creator/workflow.py, enhanced_workflow.py).       *)

NoGenerator ==
  [created |-> FALSE, model_path |-> None, llm |-> FALSE, loads |-> 0, use_llm |-> FALSE]

\* The record of a call: the method, its arguments, the answer of the
\* completion service, the generator's use_llm and the state of the generator
\* of module random at the call, and what the method handed back.
NoCall ==
  [op |-> "none", theme |-> <<>>, topic |-> <<>>, num_days |-> 0, response |-> Raise,
   rng |-> 0, use_llm |-> FALSE, calls |-> 0, result |-> <<>>, error |-> NoError]

Call(op, theme, topic, num_days, response, r, use_llm, returned) ==
  [op |-> op, theme |-> theme, topic |-> topic, num_days |-> num_days,
   response |-> response, rng |-> r, use_llm |-> use_llm, calls |-> returned.calls,
   result |-> returned.result, error |-> returned.error]

NoLocals == [topics |-> <<>>, content_plan |-> <<>>, i |-> 0, caption |-> <<>>]

\* ContentCreatorWorkflow.run's initial_state.
initial_state(brand_theme, days) ==
  [brand_theme |-> brand_theme, days |-> days, topics |-> <<>>, content_plan |-> <<>>]

\* save_to_csv: raises ValueError on an empty plan, else writes the rows.
save_to_csv(content_plan, file) ==
  IF content_plan = <<>>
    THEN [error |-> "ValueError", file |-> file]
    ELSE [error |-> NoError, file |-> Append(file, content_plan)]

\* A faulty variant of the statement below: the plan is saved unseen.
save_result_unguarded(result, file) == save_to_csv(result.content_plan, file)

\* if result.get("content_plan"): save_to_csv(result["content_plan"], ...)
save_result(result, file) ==
  IF result.content_plan # <<>>
    THEN save_to_csv(result.content_plan, file)
    ELSE [error |-> NoError, file |-> file]

\* save_to_csv's default filename, which generate_content_plan leaves as it
\* is; no caller modelled hands generate_enhanced_content_plan another.
default_filename == "content_calendar.csv"

\* The filenames of the calls of save_to_csv after generate_content_plan or
\* generate_enhanced_content_plan saved result: one more if it has a plan.
saved_filenames(result, names) ==
  IF result.content_plan # <<>> THEN Append(names, default_filename) ELSE names

\* The record of a call of the entry point: its arguments, the state of the
\* generator of module random at the call and, once it has returned, the
\* topics and the plan of its result.
NewRun(req, seed) ==
  [brand_theme |-> req.brand_theme, days |-> req.days, seed |-> seed,
   returned |-> FALSE, topics |-> <<>>, content_plan |-> <<>>]

ReturnedRun(run, result) ==
  [run EXCEPT !.returned = TRUE, !.topics = result.topics,
              !.content_plan = result.content_plan]

TypeOK ==
  /\ pc \in { "idle", "Constructed", "Start", "Planned", "Generated", "Formatted",
              "Saved", "LlmStart", "LlmLoop", "LlmHashtags", "Returned", "Done",
              "Raised", "ready", "called", "Exited", "Cycling" }
  /\ request.entry \in { "base", "enhanced", "generator", "rules", "cli" }
  /\ Len(filenames) = Len(csv_file)
  /\ llm_generator.use_llm \in BOOLEAN
  /\ rng \in Nat
  /\ method_calls \in Nat
  /\ service_calls \in 0..method_calls
  /\ error \in { NoError, "ValueError", "Exception" }

Init ==
  /\ pc = "idle"
  /\ request \in [entry : {"base"}, brand_theme : Themes, days : DayCounts]
                 \cup [entry : {"enhanced"}, brand_theme : Themes, days : EnhancedDayCounts]
  /\ llm_generator = NoGenerator
  /\ state = initial_state(<<>>, 0)
  /\ locals = NoLocals
  /\ rng \in 0..MaxSeed
  /\ stages = <<>>
  /\ last_call = NoCall
  /\ method_calls = 0
  /\ service_calls = 0
  /\ error = NoError
  /\ csv_file = <<>>
  /\ runs = <<>>
  /\ filenames = <<>>
  /\ stdout = <<>>

\* generate_content_plan, lines 86-87: the workflow is built and run() hands
\* the initial state to the graph, whose entry point is day_planner.
CallGenerateContentPlan ==
  /\ pc = "idle"
  /\ request.entry = "base"
  /\ pc' = "Start"
  /\ state' = initial_state(request.brand_theme, request.days)
  /\ runs' = Append(runs, NewRun(request, rng))
  /\ UNCHANGED << filenames, stdout, request, llm_generator, locals, rng, stages, last_call,
                  method_calls, service_calls, error, csv_file >>

\* generate_enhanced_content_plan, lines 92-97:
\* EnhancedContentCreatorWorkflow.__init__ creates the generator if use_llm.
NewEnhancedWorkflow(use_llm, model_path, exists, load_ok) ==
  /\ pc = "idle"
  /\ request.entry = "enhanced"
  /\ pc' = "Constructed"
  /\ llm_generator' = IF use_llm THEN create_llm_generator(model_path, exists, load_ok)
                                 ELSE NoGenerator
  /\ runs' = Append(runs, NewRun(request, rng))
  /\ UNCHANGED << filenames, stdout, request, state, locals, rng, stages, last_call, method_calls, service_calls,
                  error, csv_file >>

\* A faulty variant of the branch below: run() starts from the default day
\* count.
RunRuleBasedDefaultDays ==
  /\ pc = "Constructed"
  /\ ~(llm_generator.created /\ llm_generator.use_llm)
  /\ pc' = "Start"
  /\ state' = initial_state(request.brand_theme, 30)
  /\ UNCHANGED << filenames, stdout, runs, request, llm_generator, locals, rng, stages,
                  last_call, method_calls, service_calls, error, csv_file >>

\* EnhancedContentCreatorWorkflow.generate_enhanced_content_plan, else
\* branch: self.run().
RunRuleBased ==
  /\ pc = "Constructed"
  /\ ~(llm_generator.created /\ llm_generator.use_llm)
  /\ pc' = "Start"
  /\ state' = initial_state(request.brand_theme, request.days)
  /\ UNCHANGED << filenames, stdout, runs, request, llm_generator, locals, rng, stages, last_call,
                  method_calls, service_calls, error, csv_file >>

\* The same method, then branch: self._generate_with_llm().
RunWithLlm ==
  /\ pc = "Constructed"
  /\ llm_generator.created /\ llm_generator.use_llm
  /\ pc' = "LlmStart"
  /\ UNCHANGED << filenames, stdout, runs, request, llm_generator, state, locals, rng, stages, last_call,
                  method_calls, service_calls, error, csv_file >>

\* The node day_planner.
DayPlanner ==
  /\ pc = "Start"
  /\ pc' = "Planned"
  /\ state' = day_planner_node(state)
  /\ stages' = Append(stages, "Plan")
  /\ UNCHANGED << filenames, stdout, runs, request, llm_generator, locals, rng, last_call, method_calls, service_calls,
                  error, csv_file >>

\* The node content_generator.
ContentGenerator ==
  /\ pc = "Planned"
  /\ pc' = "Generated"
  /\ \E g \in { content_generator_node(state, rng) } :
       state' = g.state /\ rng' = g.rng
  /\ stages' = Append(stages, "Generate")
  /\ UNCHANGED << filenames, stdout, runs, request, llm_generator, locals, last_call, method_calls, service_calls, error,
                  csv_file >>

\* The node formatter.
Formatter ==
  /\ pc = "Generated"
  /\ pc' = "Formatted"
  /\ state' = formatter_node(state)
  /\ stages' = Append(stages, "Format")
  /\ UNCHANGED << filenames, stdout, runs, request, llm_generator, locals, rng, last_call, method_calls, service_calls,
                  error, csv_file >>

\* A faulty variant of the node below: it hands the plan to save_to_csv.
SaveNodeWrites ==
  /\ pc = "Formatted"
  /\ pc' = "Saved"
  /\ state' = save_node(state)
  /\ stages' = Append(stages, "Save")
  /\ csv_file' = Append(csv_file, state.content_plan)
  /\ UNCHANGED << filenames, stdout, runs, request, llm_generator, locals, rng, last_call, method_calls,
                  service_calls, error >>

\* The node save, after which the graph ends and run() returns.
SaveNode ==
  /\ pc = "Formatted"
  /\ pc' = "Saved"
  /\ state' = save_node(state)
  /\ stages' = Append(stages, "Save")
  /\ UNCHANGED << filenames, stdout, runs, request, llm_generator, locals, rng, last_call, method_calls, service_calls,
                  error, csv_file >>

\* _generate_with_llm, line 44: the topics.
LlmTopics(resp) ==
  /\ pc = "LlmStart"
  /\ \E r \in { generate_topics_with_llm(llm_generator.use_llm, request.brand_theme,
                                     request.days, resp, rng) } :
         /\ locals' = [topics |-> r.result, content_plan |-> <<>>, i |-> 1, caption |-> <<>>]
         /\ last_call' = Call("topics", request.brand_theme, <<>>, request.days, resp,
                              rng, llm_generator.use_llm, r)
         /\ rng' = r.rng
         /\ method_calls' = method_calls + 1
         /\ service_calls' = service_calls + r.calls
         /\ error' = r.error
         /\ pc' = IF r.error = NoError THEN "LlmLoop" ELSE "Raised"
  /\ stages' = Append(stages, "Plan")
  /\ UNCHANGED << filenames, stdout, runs, request, llm_generator, state, csv_file >>

\* _generate_with_llm, line 54: the caption of topic i.
LlmCaption(resp) ==
  /\ pc = "LlmLoop"
  /\ locals.i <= Len(locals.topics)
  /\ \E topic \in { locals.topics[locals.i] } :
     \E r \in { generate_caption_with_llm(llm_generator.use_llm, topic,
                                        request.brand_theme, resp, rng) } :
         /\ locals' = [locals EXCEPT !.caption = r.result]
         /\ last_call' = Call("caption", request.brand_theme, topic, 0, resp, rng,
                              llm_generator.use_llm, r)
         /\ rng' = r.rng
         /\ method_calls' = method_calls + 1
         /\ service_calls' = service_calls + r.calls
         /\ error' = r.error
         /\ pc' = IF r.error = NoError THEN "LlmHashtags" ELSE "Raised"
  /\ UNCHANGED << filenames, stdout, runs, request, llm_generator, state, stages, csv_file >>

\* _generate_with_llm, lines 55-62: the hashtags of topic i, and the entry.
LlmHashtags(resp) ==
  /\ pc = "LlmHashtags"
  /\ \E topic \in { locals.topics[locals.i] } :
     \E r \in { generate_hashtags_with_llm(llm_generator.use_llm, topic,
                                         request.brand_theme, resp, rng) } :
         /\ locals' = [locals EXCEPT
                         !.content_plan = Append(@, Entry(locals.i, topic, locals.caption, r.result)),
                         !.i = @ + 1,
                         !.caption = <<>>]
         /\ last_call' = Call("hashtags", request.brand_theme, topic, 0, resp, rng,
                              llm_generator.use_llm, r)
         /\ rng' = r.rng
         /\ method_calls' = method_calls + 1
         /\ service_calls' = service_calls + r.calls
         /\ error' = r.error
         /\ pc' = IF r.error = NoError THEN "LlmLoop" ELSE "Raised"
  /\ UNCHANGED << filenames, stdout, runs, request, llm_generator, state, stages, csv_file >>

\* _generate_with_llm, lines 50 and 64-69: the loop is over, the result is
\* built and returned.
LlmReturn ==
  /\ pc = "LlmLoop"
  /\ locals.i > Len(locals.topics)
  /\ pc' = "Returned"
  /\ state' = [brand_theme |-> request.brand_theme, days |-> request.days,
               topics |-> locals.topics, content_plan |-> locals.content_plan]
  /\ stages' = Append(stages, "Generate")
  /\ UNCHANGED << filenames, stdout, runs, request, llm_generator, locals, rng, last_call, method_calls, service_calls,
                  error, csv_file >>

\* generate_content_plan, lines 89-93, and generate_enhanced_content_plan,
\* lines 102-107: the plan is saved if there is one, and the result returned.
SaveAndReturn ==
  /\ pc \in {"Saved", "Returned"}
  /\ pc' = "Done"
  /\ \E saved \in { save_result(state, csv_file) } :
       error' = saved.error /\ csv_file' = saved.file
  /\ runs' = [runs EXCEPT ![Len(runs)] = ReturnedRun(@, state)]
  /\ filenames' = saved_filenames(state, filenames)
  /\ UNCHANGED << stdout, request, llm_generator, state, locals, rng, stages, last_call,
                  method_calls, service_calls >>

Next ==
  \/ CallGenerateContentPlan
  \/ \E use_llm \in BOOLEAN, model_path \in ModelPaths, exists \in BOOLEAN, load_ok \in BOOLEAN :
       NewEnhancedWorkflow(use_llm, model_path, exists, load_ok)
  \/ RunRuleBased
  \/ RunWithLlm
  \/ DayPlanner
  \/ ContentGenerator
  \/ Formatter
  \/ SaveNode
  \/ \E resp \in TopicsResponses : LlmTopics(resp)
  \/ \E resp \in RunCaptionResponses : LlmCaption(resp)
  \/ \E resp \in RunHashtagsResponses : LlmHashtags(resp)
  \/ LlmReturn
  \/ SaveAndReturn

Spec == Init /\ [][Next]_vars

-----------------------------------------------------------------------------
(* A generator used on its own, as by the demo of llm_integration.py       *)
(* (lines 236-258): it is created, then its three methods are called in    *)
(* any order, each call returning before the next.                         *)

\* The themes and the day counts the methods are called with.
OpThemes == { t \in Themes : Len(t) > 2 }

OpDayCounts == 0..MaxLlmDays

\* The topics the caption and hashtags methods are called with.
OpTopics(theme) == RangeOf(generate_topic_ideas(theme, 2)) \cup { <<"A">> }

InitOps ==
  /\ pc = "idle"
  /\ request = [entry |-> "generator", brand_theme |-> <<>>, days |-> 0]
  /\ llm_generator = NoGenerator
  /\ state = initial_state(<<>>, 0)
  /\ locals = NoLocals
  /\ rng \in 0..MaxSeed
  /\ stages = <<>>
  /\ last_call = NoCall
  /\ method_calls = 0
  /\ service_calls = 0
  /\ error = NoError
  /\ csv_file = <<>>
  /\ runs = <<>>
  /\ filenames = <<>>
  /\ stdout = <<>>

\* create_llm_generator(model_path)
NewGenerator(model_path, exists, load_ok) ==
  /\ pc = "idle"
  /\ pc' = "ready"
  /\ llm_generator' = create_llm_generator(model_path, exists, load_ok)
  /\ UNCHANGED << filenames, stdout, runs, request, state, locals, rng, stages, last_call, method_calls, service_calls,
                  error, csv_file >>

\* generator.generate_topics_with_llm(theme, num_days)
CallTopics(theme, num_days, resp) ==
  /\ pc = "ready"
  /\ method_calls < MaxCalls
  /\ \E r \in { generate_topics_with_llm(llm_generator.use_llm, theme, num_days, resp, rng) } :
         /\ last_call' = Call("topics", theme, <<>>, num_days, resp, rng,
                              llm_generator.use_llm, r)
         /\ rng' = r.rng
         /\ method_calls' = method_calls + 1
         /\ service_calls' = service_calls + r.calls
         /\ error' = r.error
  /\ pc' = "called"
  /\ UNCHANGED << filenames, stdout, runs, request, llm_generator, state, locals, stages, csv_file >>

\* generator.generate_caption_with_llm(topic, theme)
CallCaption(topic, theme, resp) ==
  /\ pc = "ready"
  /\ method_calls < MaxCalls
  /\ \E r \in { generate_caption_with_llm(llm_generator.use_llm, topic, theme, resp, rng) } :
         /\ last_call' = Call("caption", theme, topic, 0, resp, rng,
                              llm_generator.use_llm, r)
         /\ rng' = r.rng
         /\ method_calls' = method_calls + 1
         /\ service_calls' = service_calls + r.calls
         /\ error' = r.error
  /\ pc' = "called"
  /\ UNCHANGED << filenames, stdout, runs, request, llm_generator, state, locals, stages, csv_file >>

\* generator.generate_hashtags_with_llm(topic, theme)
CallHashtags(topic, theme, resp) ==
  /\ pc = "ready"
  /\ method_calls < MaxCalls
  /\ \E r \in { generate_hashtags_with_llm(llm_generator.use_llm, topic, theme, resp, rng) } :
         /\ last_call' = Call("hashtags", theme, topic, 0, resp, rng,
                              llm_generator.use_llm, r)
         /\ rng' = r.rng
         /\ method_calls' = method_calls + 1
         /\ service_calls' = service_calls + r.calls
         /\ error' = r.error
  /\ pc' = "called"
  /\ UNCHANGED << filenames, stdout, runs, request, llm_generator, state, locals, stages, csv_file >>

\* The caller goes on with its next statement.
Resume ==
  /\ pc = "called"
  /\ error = NoError
  /\ pc' = "ready"
  /\ last_call' = NoCall
  /\ UNCHANGED << filenames, stdout, runs, request, llm_generator, state, locals, rng, stages,
                  method_calls, service_calls, error, csv_file >>

NextOps ==
  \/ \E model_path \in ModelPaths, exists \in BOOLEAN, load_ok \in BOOLEAN :
       NewGenerator(model_path, exists, load_ok)
  \/ \E theme \in OpThemes, num_days \in OpDayCounts, resp \in TopicsResponses :
       CallTopics(theme, num_days, resp)
  \/ \E theme \in OpThemes : \E topic \in OpTopics(theme), resp \in CaptionResponses :
       CallCaption(topic, theme, resp)
  \/ \E theme \in OpThemes : \E topic \in OpTopics(theme), resp \in HashtagsResponses :
       CallHashtags(topic, theme, resp)
  \/ Resume

SpecOps == InitOps /\ [][NextOps]_vars

-----------------------------------------------------------------------------
(* The rule-based generators of nodes.py called on their own, as the tests *)
(* of test_all_features.py and the fallbacks of llm_integration.py call    *)
(* them, random.choice and random.sample yielding any of their outcomes.   *)

\* The place of the topic "Green Technology" in the technology list.
GreenTechnology ==
  CHOOSE i \in 1..Len(themes_Technology) :
    themes_Technology[i] = <<"G","r","e","e","n"," ","T","e","c","h","n","o","l","o","g","y">>

\* The themes the generators are called with: of one category, of two
\* categories (in either order of the names), in another case, of no
\* category, of two characters, the name of a general hashtag, and a theme
\* that is one of the topics of its category.
RuleThemes ==
  Themes \cup
  { themes_Technology[GreenTechnology],
    <<"B","u","s","i","n","e","s","s"," ","F","i","t","n","e","s","s">>,
    <<"m","e","n","t","a","l"," ","&"," ","f","i","t","n","e","s","s">>,
    <<"N","e","w"," ","T","E","C","H","N","O","L","O","G","Y">>,
    <<"S","u","c","c","e","s","s">> }

\* The day counts generate_topic_ideas is called with: the small ones, one
\* above the 30 topics of a list, one above twice as many.
RuleDayCounts == ((0 - MaxDays)..MaxDays) \cup { LongDays, WrapDays, TwiceDays }

\* The topics the caption and hashtags generators are called with: the first
\* topics of the theme, a topic of one character, one with a hyphen, and the
\* topic "Green Technology" for the themes of that category.
RuleTopics(theme) ==
  RangeOf(generate_topic_ideas(theme, MaxRuleTopics))
    \cup { <<"A">>, <<"S","e","l","f","-","C","a","r","e">> }
    \cup { topics[GreenTechnology] : topics \in { generate_topic_ideas(theme, Len(themes_Technology)) } }

\* The outcomes of the calls of random.sample in generate_hashtags(_, theme):
\* the category's pool is sampled only if a key matches.
HashtagDraws(theme) ==
  LET key == find_hashtag_key(theme)
      g   == Len(general_hashtags)
      t   == IF key # None THEN Len(theme_hashtags(key)) ELSE 1
  IN  { <<d1, d2, d3, d4>> : d1 \in 0..(t - 1), d2 \in 0..(IF t > 1 THEN t - 2 ELSE 0),
                             d3 \in 0..(g - 1), d4 \in 0..(g - 2) }

\* The outcomes of random.choice(templates).
CaptionDraws == 0..(templates_len - 1)

InitRules ==
  /\ pc = "idle"
  /\ request = [entry |-> "rules", brand_theme |-> <<>>, days |-> 0]
  /\ llm_generator = NoGenerator
  /\ state = initial_state(<<>>, 0)
  /\ locals = NoLocals
  /\ rng = 0
  /\ stages = <<>>
  /\ last_call = NoCall
  /\ method_calls = 0
  /\ service_calls = 0
  /\ error = NoError
  /\ csv_file = <<>>
  /\ runs = <<>>
  /\ filenames = <<>>
  /\ stdout = <<>>

\* generate_topic_ideas(theme, num_days)
CallGenerateTopicIdeas ==
  /\ pc = "idle"
  /\ pc' = "called"
  /\ \E theme \in RuleThemes, num_days \in RuleDayCounts :
       last_call' = Call("generate_topic_ideas", theme, <<>>, num_days, Raise, rng, FALSE,
                         Returned(generate_topic_ideas(theme, num_days), rng, 0))
  /\ UNCHANGED << filenames, stdout, runs, request, llm_generator, state, locals, rng, stages, method_calls,
                  service_calls, error, csv_file >>

\* generate_hashtags(topic, theme), the calls of random.sample drawing d
CallGenerateHashtags ==
  /\ pc = "idle"
  /\ pc' = "called"
  /\ \E theme \in RuleThemes : \E topic \in RuleTopics(theme), d \in HashtagDraws(theme) :
       last_call' = Call("generate_hashtags", theme, topic, 0, Raise, rng, FALSE,
                         Returned(generate_hashtags(topic, theme, d), rng, 0))
  /\ UNCHANGED << filenames, stdout, runs, request, llm_generator, state, locals, rng, stages, method_calls,
                  service_calls, error, csv_file >>

\* One turn of content_generator_node's loop, for topic number day of the
\* topics of the theme, random.choice drawing c and random.sample d.
GenerateEntry ==
  /\ pc = "idle"
  /\ pc' = "called"
  /\ \E theme \in Themes, num_days \in 1..MaxEntryDays :
       \E topics \in { generate_topic_ideas(theme, num_days) } :
         \E day \in 1..Len(topics), c \in CaptionDraws, d \in HashtagDraws(theme) :
           last_call' = Call("content_entry", theme, topics[day], num_days, Raise, rng, FALSE,
                             Returned(content_entry(day, topics[day], theme, c, d), rng, 0))
  /\ UNCHANGED << filenames, stdout, runs, request, llm_generator, state, locals, rng, stages, method_calls,
                  service_calls, error, csv_file >>

NextRules ==
  \/ CallGenerateTopicIdeas
  \/ CallGenerateHashtags
  \/ GenerateEntry

SpecRules == InitRules /\ [][NextRules]_vars

-----------------------------------------------------------------------------
(* generate_content_plan called twice by one process, as the tests of      *)
(* test_all_features.py call it one after the other, the caller seeding    *)
(* module random before each call.                                         *)

InitRuns == Init /\ request.entry = "base"

\* random.seed(seed) and the second call, generate_content_plan(theme, days).
RunAgain(req, seed) ==
  /\ pc = "Done"
  /\ Len(runs) = 1
  /\ pc' = "idle"
  /\ request' = req
  /\ rng' = seed
  /\ state' = initial_state(<<>>, 0)
  /\ stages' = <<>>
  /\ UNCHANGED << filenames, stdout, runs, llm_generator, locals, last_call, method_calls, service_calls,
                  error, csv_file >>

NextRuns ==
  \/ CallGenerateContentPlan
  \/ DayPlanner
  \/ ContentGenerator
  \/ Formatter
  \/ SaveNode
  \/ SaveAndReturn
  \/ \E req \in [entry : {"base"}, brand_theme : Themes, days : DayCounts], seed \in 0..MaxSeed :
       RunAgain(req, seed)

SpecRuns == InitRuns /\ [][NextRuns]_vars

-----------------------------------------------------------------------------
(* The command line of cli.py: main parses theme, --days and --output,     *)
(* calls generate_content_plan and reports.                                *)

\* The values of --output: its default and another path.
OutputPaths == { default_filename, "plan.csv" }

InitCli ==
  /\ pc = "idle"
  /\ request \in [entry : {"cli"}, brand_theme : Themes, days : DayCounts,
                  output : OutputPaths]
  /\ llm_generator = NoGenerator
  /\ state = initial_state(<<>>, 0)
  /\ locals = NoLocals
  /\ rng \in 0..MaxSeed
  /\ stages = <<>>
  /\ last_call = NoCall
  /\ method_calls = 0
  /\ service_calls = 0
  /\ error = NoError
  /\ csv_file = <<>>
  /\ runs = <<>>
  /\ filenames = <<>>
  /\ stdout = <<>>

\* main, line 46: generate_content_plan(args.theme, args.days), whose
\* lines 86-87 build the workflow and start the graph.
CliMain ==
  /\ pc = "idle"
  /\ request.entry = "cli"
  /\ pc' = "Start"
  /\ state' = initial_state(request.brand_theme, request.days)
  /\ runs' = Append(runs, NewRun(request, rng))
  /\ UNCHANGED << filenames, stdout, request, llm_generator, locals, rng, stages, last_call,
                  method_calls, service_calls, error, csv_file >>

\* main, lines 49-63: with a plan, the preview and "Full content plan has
\* been saved to {args.output}"; without one, a message and sys.exit(1).
CliReport ==
  /\ pc = "Done"
  /\ request.entry = "cli"
  /\ pc' = "Exited"
  /\ stdout' = IF state.content_plan # <<>> THEN Append(stdout, request.output) ELSE stdout
  /\ UNCHANGED << filenames, runs, request, llm_generator, state, locals, rng, stages,
                  last_call, method_calls, service_calls, error, csv_file >>

NextCli ==
  \/ CliMain
  \/ DayPlanner
  \/ ContentGenerator
  \/ Formatter
  \/ SaveNode
  \/ SaveAndReturn
  \/ CliReport

SpecCli == InitCli /\ [][NextCli]_vars

-----------------------------------------------------------------------------
(* generate_topic_ideas with its loop taken turn by turn, called on its    *)
(* own and by day_planner_node in a run of the rule-based pipeline.  The   *)
(* program is sequential: a statement that can run does run, which the     *)
(* fairness conditions state.                                              *)

\* The day counts of the runs of the pipeline: negative, none, one, and two
\* above the 30 topics of a category.
LoopDayCounts == { 0 - 1, 0, 1, LongDays, WrapDays }

\* The day counts of the calls of generate_topic_ideas alone: those, and
\* above twice and about four times the topics of a category.
LoopTopicCounts == LoopDayCounts \cup { TwiceDays, ManyDays - 1, ManyDays }

\* Before generate_content_plan is called, or with generate_topic_ideas
\* called and about to run.
InitLoop ==
  /\ \/ /\ pc = "idle"
        /\ request \in [entry : {"base"}, brand_theme : Themes, days : LoopDayCounts]
        /\ rng \in 0..MaxSeed
     \/ /\ pc = "Start"
        /\ request \in [entry : {"rules"}, brand_theme : Themes, days : LoopTopicCounts]
        /\ rng = 0
  /\ llm_generator = NoGenerator
  /\ state = initial_state(<<>>, 0)
  /\ locals = NoLocals
  /\ stages = <<>>
  /\ last_call = NoCall
  /\ method_calls = 0
  /\ service_calls = 0
  /\ error = NoError
  /\ csv_file = <<>>
  /\ runs = <<>>
  /\ filenames = <<>>
  /\ stdout = <<>>

\* generate_topic_ideas, lines 67-77: with a category,
\* topics = themes[theme_key][:num_days]; lines 98-101 without one.
TopicsStart ==
  /\ pc = "Start"
  /\ pc' = "Cycling"
  /\ \E theme_key \in { find_theme_key(request.brand_theme) } :
       locals' = [NoLocals EXCEPT !.topics =
                    IF theme_key # None THEN slice_to(themes(theme_key), request.days)
                    ELSE fallback_unknown(request.brand_theme, request.days)]
  /\ UNCHANGED << filenames, stdout, runs, request, llm_generator, state, rng, stages,
                  last_call, method_calls, service_calls, error, csv_file >>

\* Lines 79-81: one turn of the loop while len(topics) < num_days.
TopicsExtend ==
  /\ pc = "Cycling"
  /\ find_theme_key(request.brand_theme) # None
  /\ Len(locals.topics) < request.days
  /\ locals' = [locals EXCEPT
                  !.topics = extend_topics(@, themes(find_theme_key(request.brand_theme)),
                                           request.days),
                  !.i = @ + 1]
  /\ UNCHANGED << filenames, stdout, runs, request, llm_generator, state, rng, stages,
                  last_call, method_calls, service_calls, error, csv_file, pc >>

\* Lines 82 and 103: the loop is over and the topics are returned, to
\* day_planner_node, which merges them into the state, or to the caller.
TopicsReturn ==
  /\ pc = "Cycling"
  /\ find_theme_key(request.brand_theme) # None => ~(Len(locals.topics) < request.days)
  /\ \E topics \in { IF find_theme_key(request.brand_theme) # None
                       THEN slice_to(locals.topics, request.days) ELSE locals.topics } :
       IF request.entry = "base"
         THEN /\ pc' = "Planned"
              /\ state' = [state EXCEPT !.topics = topics]
              /\ stages' = Append(stages, "Plan")
              /\ UNCHANGED last_call
         ELSE /\ pc' = "called"
              /\ last_call' = Call("generate_topic_ideas", request.brand_theme, <<>>,
                                   request.days, Raise, rng, FALSE, Returned(topics, rng, 0))
              /\ UNCHANGED << state, stages >>
  /\ UNCHANGED << filenames, stdout, runs, request, llm_generator, locals, rng,
                  method_calls, service_calls, error, csv_file >>

NextLoop ==
  \/ CallGenerateContentPlan
  \/ TopicsStart
  \/ TopicsExtend
  \/ TopicsReturn
  \/ ContentGenerator
  \/ Formatter
  \/ SaveNode
  \/ SaveAndReturn

\* content_generator_node as far as the position of the run goes: its loop
\* is a for over the topics it is given, so it runs to its end whenever the
\* graph has reached it, whatever the entries it makes.
LeaveContentGenerator ==
  /\ pc = "Planned"
  /\ pc' = "Generated"
  /\ stages' = Append(stages, "Generate")
  /\ UNCHANGED << filenames, stdout, runs, request, llm_generator, state, locals, rng,
                  last_call, method_calls, service_calls, error, csv_file >>

\* Each statement that can run eventually does: the graph stays at no node
\* and the loop at no turn for ever.
FairLoop ==
  /\ WF_vars(CallGenerateContentPlan)
  /\ WF_vars(TopicsStart)
  /\ WF_vars(TopicsExtend)
  /\ WF_vars(TopicsReturn)
  /\ WF_vars(LeaveContentGenerator)
  /\ WF_vars(Formatter)
  /\ WF_vars(SaveNode)
  /\ WF_vars(SaveAndReturn)

SpecLoop == InitLoop /\ [][NextLoop]_vars /\ FairLoop

-----------------------------------------------------------------------------
(* generate_content_plan and then generate_enhanced_content_plan, called   *)
(* by one process with the same theme and day count, the enhanced workflow *)
(* without a model it can use: use_llm false, or true with no model path,  *)
(* a missing file or a model that fails to load.                           *)

\* use_llm, model_path, whether the file exists and whether it loads, for
\* a workflow without a usable model.
NoModelSetups ==
  { s \in [use_llm : BOOLEAN, model_path : ModelPaths, exists : BOOLEAN, load_ok : BOOLEAN] :
      ~s.use_llm \/ s.model_path = None \/ ~s.exists \/ ~s.load_ok }

\* The second call: generate_enhanced_content_plan(theme, days, ...), module
\* random being in the state seed.
RunEnhancedAgain ==
  /\ pc = "Done"
  /\ Len(runs) = 1
  /\ request.entry = "base"
  /\ pc' = "idle"
  /\ request' = [request EXCEPT !.entry = "enhanced"]
  /\ \E seed \in 0..MaxSeed : rng' = seed
  /\ state' = initial_state(<<>>, 0)
  /\ stages' = <<>>
  /\ UNCHANGED << filenames, stdout, runs, llm_generator, locals, last_call, method_calls,
                  service_calls, error, csv_file >>

NextPair ==
  \/ CallGenerateContentPlan
  \/ \E s \in NoModelSetups :
       NewEnhancedWorkflow(s.use_llm, s.model_path, s.exists, s.load_ok)
  \/ RunRuleBased
  \/ DayPlanner
  \/ ContentGenerator
  \/ Formatter
  \/ SaveNode
  \/ SaveAndReturn
  \/ RunEnhancedAgain

SpecPair == InitRuns /\ [][NextPair]_vars

-----------------------------------------------------------------------------
(* Properties.                                                              *)

\* A run of the pipeline whose content comes from the completion service.
ModelBacked == llm_generator.created /\ llm_generator.use_llm

\* A run of the pipeline whose content comes from the rule-based generators.
RuleBased == request.entry \in {"base", "enhanced"} /\ ~ModelBacked

\* What the rule-based generator of the same operation returns for the
\* arguments of a call, module random being in the state of the call.
rule_based_result(call) ==
  CASE call.op = "topics" -> generate_topic_ideas(call.theme, call.num_days)
    [] call.op = "caption" ->
         generate_caption(call.topic, call.theme, caption_draw(call.rng).d)
    [] call.op = "hashtags" ->
         generate_hashtags(call.topic, call.theme, hashtag_draws(call.theme, call.rng).d)

\* The elements the service's answer holds as a JSON array, or nothing when
\* the service raised, the text has no array or the array cannot be parsed.
response_items(resp) ==
  IF resp.raised THEN <<>>
  ELSE LET topics_json == search_array(strip(resp.text))
       IN  IF topics_json = None THEN <<>>
           ELSE json_loads(topics_json).items

\* The valid non-empty strings among the first num_days elements of the answer.
valid_topics(resp, num_days) == clean_topics(response_items(resp), num_days)

\* C1: With the rule-based backend, for every theme and every day count >= 1,
\* the returned state has exactly that many topics and that many entries,
\* whose Day fields are 1, 2, ... in list order.
C1_RuleBasedPlanLength ==
  (pc = "Done" /\ RuleBased /\ request.days >= 1) =>
     /\ Len(state.topics) = request.days
     /\ Len(state.content_plan) = request.days
     /\ \A i \in 1..Len(state.content_plan) : state.content_plan[i].Day = i

\* A rule-based run for more days than a category has topics has returned.
C1_Witness ==
  /\ pc = "Done" /\ RuleBased
  /\ find_theme_key(request.brand_theme) # None
  /\ request.days > Len(themes(find_theme_key(request.brand_theme)))
  /\ Len(state.content_plan) = request.days
  /\ state.content_plan[request.days].Day = request.days

\* C2: With the model-backed backend, whatever the completion service answers
\* to the topics request, for a day count >= 1 the result has exactly that many
\* topics and that many entries.
C2_ModelBackedPlanLength ==
  (pc = "Done" /\ ModelBacked /\ request.days >= 1) =>
     /\ Len(state.topics) = request.days
     /\ Len(state.content_plan) = request.days

\* C3: For every day count >= 1, when the completion service answers the topics
\* request with malformed or empty text (empty, no JSON array, unparseable, an
\* empty array or an array with no non-empty string), generate_topics_with_llm
\* returns the full rule-based sequence of that length.
C3_MalformedTopicsFallBack ==
  ( /\ last_call.op = "topics" /\ last_call.use_llm
    /\ last_call.num_days >= 1
    /\ ~last_call.response.raised
    /\ clean_topics(response_items(last_call.response),
                    Len(response_items(last_call.response))) = <<>> ) =>
     /\ last_call.result = generate_topic_ideas(last_call.theme, last_call.num_days)
     /\ Len(last_call.result) = last_call.num_days

\* C4: In a model-backed run an exception of the completion service in a
\* topics, caption or hashtags call does not reach the caller of the pipeline:
\* the call returns the rule-based result of the same operation, the service
\* is invoked at most once per call, and the run goes on until it returns a
\* result: it is at a statement of _generate_with_llm or of its caller, its
\* loop having built one entry for each topic it has passed.
C4_ServiceFailureFallsBack ==
  ModelBacked =>
     /\ pc # "Raised" /\ error = NoError
     /\ pc \in { "Constructed", "LlmStart", "LlmLoop", "LlmHashtags", "Returned", "Done" }
     /\ pc \in { "LlmLoop", "LlmHashtags" } =>
           /\ locals.i <= Len(locals.topics) + 1
           /\ pc = "LlmHashtags" => locals.i <= Len(locals.topics)
           /\ Len(locals.content_plan) = locals.i - 1
     /\ last_call.calls <= 1 /\ service_calls <= method_calls
     /\ (last_call.op # "none" /\ last_call.response.raised) =>
           /\ last_call.error = NoError
           /\ last_call.calls = 1
           /\ last_call.result = rule_based_result(last_call)
     /\ pc = "Done" =>
           /\ state.topics = locals.topics
           /\ Len(state.content_plan) = Len(state.topics)

\* A model-backed run has returned a plan whose last hashtags call met an
\* exception of the service.
C4_Witness ==
  /\ pc = "Done" /\ ModelBacked
  /\ last_call.op = "hashtags" /\ last_call.response.raised
  /\ state.content_plan # <<>>
  /\ state.content_plan[Len(state.content_plan)].Hashtags = rule_based_result(last_call)

\* C5: A generator whose model was not loaded at construction (no path, no
\* file, or a failed load) has use_llm false and keeps it: no call loads the
\* model, sets use_llm or invokes the completion service.
C5_DowngradeIsPermanent ==
  /\ []( (llm_generator.created /\ ~llm_generator.llm) =>
            /\ ~llm_generator.use_llm
            /\ service_calls = 0
            /\ last_call.calls = 0 )
  /\ [][ (llm_generator.created /\ ~llm_generator.llm) =>
            /\ llm_generator' = llm_generator
            /\ service_calls' = service_calls ]_vars

\* A generator whose load failed has served MaxCalls calls, the last one
\* answered by the rule-based generator though the service had a caption.
C5_Witness ==
  /\ llm_generator.created /\ llm_generator.loads = 1 /\ ~llm_generator.llm
  /\ method_calls = MaxCalls /\ pc = "called"
  /\ last_call.op = "caption" /\ accepted_caption(last_call.response).ok
  /\ last_call.result = rule_based_result(last_call)

\* C6: Every run of the pipeline, with either backend, passes the stages
\* Plan, Generate, Format, Save in that order, each once, none skipped.
C6_StagesInOrder ==
  LET order == << "Plan", "Generate", "Format", "Save" >>
  IN  /\ Len(stages) <= Len(order)
      /\ stages = SubSeq(order, 1, Len(stages))
      /\ pc = "Done" => stages = order

\* C7: generate_topics_with_llm takes the model's topics only if at least
\* ceil(num_days / 2) valid non-empty strings were parsed from the first
\* num_days elements; with fewer, for num_days >= 1, it returns the full
\* rule-based sequence.
C7_TopicsThresholdIsCeiling ==
  ( /\ last_call.op = "topics" /\ last_call.use_llm
    /\ last_call.num_days >= 1
    /\ Len(valid_topics(last_call.response, last_call.num_days))
         < (last_call.num_days + 1) \div 2 ) =>
     last_call.result = rule_based_result(last_call)

\* C8: generate_caption_with_llm returns the model's caption only if what
\* remains of it without the words that start with "#" is longer than 10
\* characters; otherwise it returns the rule-based caption.
C8_CaptionLengthAfterStripping ==
  (last_call.op = "caption" /\ last_call.use_llm) =>
     LET remaining == IF last_call.response.raised THEN <<>>
                      ELSE strip_hashtags(last_call.response.text)
     IN  IF Len(remaining) > 10
           THEN last_call.result = remaining
           ELSE last_call.result = rule_based_result(last_call)

\* C9: generate_hashtags_with_llm returns hashtags of the model if and only
\* if at least 3 hashtag tokens were extracted from the response, and then the
\* first 5 of them at most, in the order of the response; with fewer it
\* returns the rule-based hashtags of the topic and theme.
C9_HashtagsThreshold ==
  (last_call.op = "hashtags" /\ last_call.use_llm) =>
     LET tokens == IF last_call.response.raised THEN <<>>
                   ELSE findall_hashtags(last_call.response.text)
         first  == SubSeq(tokens, 1, IF Len(tokens) > 5 THEN 5 ELSE Len(tokens))
     IN  IF Len(tokens) >= 3
           THEN last_call.result = join(<<" ">>, first)
           ELSE last_call.result = rule_based_result(last_call)

\* A response of more than 5 tokens was answered with its first 5.
C9_Witness ==
  /\ last_call.op = "hashtags" /\ last_call.use_llm
  /\ ~last_call.response.raised
  /\ Len(findall_hashtags(last_call.response.text)) > 5
  /\ split(last_call.result) = SubSeq(findall_hashtags(last_call.response.text), 1, 5)

\* C10: In every content plan, of either backend, the Hashtags field of each
\* entry is a space-joined list of at most 5 tokens, no token twice, each
\* token "#" followed by more than 2 characters.
C10_HashtagsOfEntries ==
  \A i \in 1..Len(state.content_plan) :
     LET tokens == split(state.content_plan[i].Hashtags)
     IN  /\ Len(tokens) <= 5
         /\ \A j, k \in 1..Len(tokens) : tokens[j] = tokens[k] => j = k
         /\ \A j \in 1..Len(tokens) : Head(tokens[j]) = "#" /\ Len(tokens[j]) - 1 > 2

\* C11: For every topic, every theme (also of 2 characters or fewer, also
\* with a topic whose folded token exceeds 20 characters) and every outcome of
\* the sampling, the rule-based generate_hashtags returns 1 to 5 tokens, each
\* starting with "#", none repeated, each body longer than 2 characters.
C11_RuleBasedHashtags ==
  last_call.op = "generate_hashtags" =>
     LET tokens == split(last_call.result)
     IN  /\ last_call.result = join(<<" ">>, tokens)
         /\ Len(tokens) >= 1 /\ Len(tokens) <= 5
         /\ \A j, k \in 1..Len(tokens) : tokens[j] = tokens[k] => j = k
         /\ \A j \in 1..Len(tokens) : Head(tokens[j]) = "#" /\ Len(tokens[j]) - 1 > 2

\* The hashtags of a theme of 2 characters and a topic whose folded token has
\* more than 20: the two general ones only.
C11_Witness ==
  /\ last_call.op = "generate_hashtags"
  /\ Len(last_call.theme) <= 2
  /\ Len(topic_clean(last_call.topic)) > 20
  /\ Len(split(last_call.result)) = 2

\* C12: For a theme of a known category and a day count >= 1,
\* generate_topic_ideas returns topics[i] = pool[i mod 30] of the category's
\* list for every i below the day count, also beyond twice the 30 topics.
C12_TopicsWrapAround ==
  ( /\ last_call.op = "generate_topic_ideas" /\ last_call.num_days >= 1
    /\ find_theme_key(last_call.theme) # None ) =>
     LET pool == themes(find_theme_key(last_call.theme))
     IN  /\ Len(pool) = 30
         /\ Len(last_call.result) = last_call.num_days
         /\ \A i \in 0..(last_call.num_days - 1) :
               last_call.result[i + 1] = pool[(i % 30) + 1]

\* The topics of a known category for more than twice 30 days.
C12_Witness ==
  /\ last_call.op = "generate_topic_ideas"
  /\ find_theme_key(last_call.theme) # None
  /\ last_call.num_days > 60
  /\ last_call.result[last_call.num_days] =
       themes(find_theme_key(last_call.theme))[last_call.num_days - 60]

\* C13: For a theme of no known category and a day count >= 1,
\* generate_topic_ideas returns topics[i] = "{theme}: {base[i mod 30]}" for
\* every i below the day count, base being the list of 30 generic topics.
C13_GenericTopics ==
  ( /\ last_call.op = "generate_topic_ideas" /\ last_call.num_days >= 1
    /\ find_theme_key(last_call.theme) = None ) =>
     /\ Len(base_topics) = 30
     /\ Len(last_call.result) = last_call.num_days
     /\ \A i \in 0..(last_call.num_days - 1) :
           last_call.result[i + 1] = last_call.theme \o <<":", " ">> \o base_topics[(i % 30) + 1]

\* The topics of a theme of no category for more than 30 days.
C13_Witness ==
  /\ last_call.op = "generate_topic_ideas"
  /\ find_theme_key(last_call.theme) = None
  /\ last_call.num_days > 30
  /\ last_call.result[31] = last_call.result[1]
  /\ last_call.result[30] # last_call.result[1]

\* C14: For every theme, of a known category or not, and every day count <= 0,
\* generate_topic_ideas returns an empty sequence.
C14_NoTopicsForNoDays ==
  (last_call.op = "generate_topic_ideas" /\ last_call.num_days <= 0) =>
     last_call.result = <<>>

\* The names of the categories in their order.
category_order ==
  << <<"F","i","t","n","e","s","s">>, <<"M","e","n","t","a","l">>,
     <<"B","u","s","i","n","e","s","s">>, <<"T","e","c","h","n","o","l","o","g","y">> >>

\* The categories whose name is in the theme, case ignored.
categories_in(theme) ==
  { i \in 1..Len(category_order) : contains(lower(theme), lower(category_order[i])) }

\* C15: The category of a theme is found by a case-insensitive substring
\* match, the first match in the order Fitness, Mental, Business, Technology;
\* a theme that matches none has no category.
C15_FirstCategoryInOrder ==
  /\ theme_keys = category_order
  /\ (last_call.op = "generate_topic_ideas" /\ last_call.num_days >= 1) =>
        LET matches == categories_in(last_call.theme)
            first   == CHOOSE i \in matches : \A j \in matches : i <= j
        IN  IF matches = {}
              THEN last_call.result[1] = last_call.theme \o <<":", " ">> \o base_topics[1]
              ELSE last_call.result[1] = themes(category_order[first])[1]

\* A theme that names Mental before Fitness, in another case than the keys,
\* has the topics of Fitness.
C15_Witness ==
  /\ last_call.op = "generate_topic_ideas" /\ last_call.num_days >= 1
  /\ categories_in(last_call.theme) = {1, 2}
  /\ last_call.theme[1] = "m"
  /\ last_call.result[1] = themes_Fitness[1]

\* C16: A request with an empty or blank theme, or with a day count <= 0, is
\* rejected before any stage runs: no Plan or Generate stage is executed and
\* no topics or entries are produced for it.
C16_InvalidRequestRejected ==
  (request.days <= 0 \/ strip(request.brand_theme) = <<>>) =>
     /\ stages = <<>>
     /\ state.topics = <<>> /\ state.content_plan = <<>>
     /\ locals.topics = <<>> /\ locals.content_plan = <<>>

\* C17: When a run produces no entry, generate_content_plan and
\* generate_enhanced_content_plan return an empty content_plan and raise
\* nothing: save_to_csv and its ValueError are not reached.
C17_EmptyPlanReturnsNormally ==
  /\ error # "ValueError"
  /\ (pc = "Done" /\ state.content_plan = <<>>) =>
        /\ error = NoError
        /\ csv_file = <<>>
        /\ runs[Len(runs)].returned /\ runs[Len(runs)].content_plan = <<>>

\* A model-backed run asked for a day or more has returned without an entry.
C17_Witness ==
  /\ pc = "Done" /\ ModelBacked
  /\ request.days >= 1
  /\ state.content_plan = <<>>
  /\ error = NoError

\* C18: save_to_csv is handed the content plan at most once per call of the
\* pipeline, only after every entry of the run has been generated, and it is
\* handed the complete plan of the run.
C18_PlanSavedOnceAndWhole ==
  /\ [](Len(csv_file) <= 1)
  /\ [][ csv_file' # csv_file =>
            /\ pc \in { "Saved", "Returned" } /\ pc' = "Done"
            /\ csv_file = <<>>
            /\ csv_file' = << state.content_plan >>
            /\ state' = state
            /\ Len(state.content_plan) = Len(state.topics)
            /\ \A i \in 1..Len(state.topics) :
                  /\ state.content_plan[i].Day = i
                  /\ state.content_plan[i].Topic = state.topics[i] ]_vars

\* A run of more than one day has returned with its whole plan saved.
C18_Witness ==
  /\ pc = "Done"
  /\ Len(state.topics) > 1
  /\ csv_file = << state.content_plan >>
  /\ Len(state.content_plan) = Len(state.topics)

\* C19: Every entry of a plan of the rule-based generate_content_plan for a
\* day count >= 1 has the four fields Day, Topic, Caption and Hashtags, the
\* last three non-empty, for every theme and every outcome of the random
\* choices.
C19_EntriesComplete ==
  last_call.op = "content_entry" =>
     /\ DOMAIN last_call.result = { "Day", "Topic", "Caption", "Hashtags" }
     /\ last_call.result.Day \in 1..last_call.num_days
     /\ last_call.result.Topic # <<>>
     /\ last_call.result.Caption # <<>>
     /\ last_call.result.Hashtags # <<>>

\* The last entry of a plan for a theme of 2 characters, whose hashtags are
\* the general ones only.
C19_Witness ==
  /\ last_call.op = "content_entry"
  /\ last_call.num_days > 1 /\ last_call.result.Day = last_call.num_days
  /\ Len(last_call.theme) <= 2
  /\ Len(split(last_call.result.Hashtags)) = 2

C21_ReportedFileIsWritten ==
  (pc = "Exited" /\ state.content_plan # <<>>) =>
     /\ stdout = << request.output >>
     /\ filenames = << request.output >>

\* The state of the pipeline: the ContentState threaded through the graph or,
\* while _generate_with_llm runs, the workflow's brand_theme and days with the
\* method's topics and content_plan.
pipeline_state ==
  IF pc \in { "LlmStart", "LlmLoop", "LlmHashtags" }
    THEN [brand_theme |-> request.brand_theme, days |-> request.days,
          topics |-> locals.topics, content_plan |-> locals.content_plan]
    ELSE state

\* The pipeline has a state: its run has begun.
Running == pc \notin { "idle", "Constructed" }

\* C22: Each stage changes the pipeline state additively: Plan changes only
\* topics, Generate only content_plan, Format and Save nothing; brand_theme
\* and days keep their initial values throughout the run, and topics is not
\* changed once Plan has completed.
C22_StagesChangeTheirFieldOnly ==
  /\ [](Running => /\ pipeline_state.brand_theme = request.brand_theme
                   /\ pipeline_state.days = request.days)
  /\ [][ (Running /\ Running') =>
            /\ DOMAIN pipeline_state' = DOMAIN pipeline_state
            /\ stages' = Append(stages, "Plan") =>
                  pipeline_state' = [pipeline_state EXCEPT !.topics = pipeline_state'.topics]
            /\ pc \in { "Planned", "LlmLoop", "LlmHashtags" } =>
                  pipeline_state' =
                    [pipeline_state EXCEPT !.content_plan = pipeline_state'.content_plan]
            /\ pc \in { "Generated", "Formatted" } => pipeline_state' = pipeline_state
            /\ stages # <<>> => pipeline_state'.topics = pipeline_state.topics
            /\ pipeline_state'.content_plan # pipeline_state.content_plan =>
                  /\ pc \in { "Planned", "LlmHashtags" }
                  /\ Len(pipeline_state'.content_plan) = Len(pipeline_state.content_plan) + 1
                        \/ pc = "Planned" ]_vars

\* A run of the graph through its four stages has left a plan of two entries
\* or more.
C22_Witness ==
  /\ pc = "Done"
  /\ stages = << "Plan", "Generate", "Format", "Save" >>
  /\ Len(state.topics) > 1
  /\ Len(state.content_plan) = Len(state.topics)
  /\ state.brand_theme = request.brand_theme /\ state.days = request.days

\* C23: In the result of every completed run, rule-based or model-backed
\* (also when caption or hashtag calls fell back to the rule-based
\* generators), content_plan is as long as topics and its entry number i has
\* Day = i and Topic = topics[i] (counting from 1).
C23_EntriesFollowTopics ==
  pc = "Done" =>
     /\ Len(state.content_plan) = Len(state.topics)
     /\ \A i \in 1..Len(state.topics) :
           /\ state.content_plan[i].Day = i
           /\ state.content_plan[i].Topic = state.topics[i]
     /\ runs[Len(runs)].content_plan = state.content_plan

\* A model-backed run of two topics or more has returned, the completion
\* service having failed for the hashtags of its last topic.
C23_Witness ==
  /\ pc = "Done" /\ ModelBacked
  /\ Len(state.topics) > 1
  /\ Len(state.content_plan) = Len(state.topics)
  /\ last_call.op = "hashtags" /\ last_call.response = Raise
  /\ state.content_plan[Len(state.topics)].Day = Len(state.topics)

\* The theme and topic tags of a call of generate_hashtags, and the tokens of
\* its result.
theme_token(call) == replace_space(call.theme)

topic_token(call) == topic_clean(call.topic)

tokens(call) == split(call.result)

\* The claim's condition: both tags are kept by the filters.
both_retained(call) ==
  /\ call.op = "generate_hashtags"
  /\ Len(theme_token(call)) > 2
  /\ Len(topic_token(call)) > 2 /\ Len(topic_token(call)) <= 20

\* C24 (as stated): whenever the theme tag and the topic tag are both kept,
\* they are the first two tokens of the result of generate_hashtags, in that
\* order.
C24_ThemeAndTopicFirst ==
  both_retained(last_call) =>
     /\ Len(tokens(last_call)) >= 2
     /\ tokens(last_call)[1] = <<"#">> \o theme_token(last_call)
     /\ tokens(last_call)[2] = <<"#">> \o topic_token(last_call)

\* C24 (amended): whenever both are kept, the theme tag is the first token
\* and the topic tag, if it differs from the theme tag, the second; if they
\* are the same tag it stands once, first.  No sampled tag precedes them, for
\* any sample and also when the list is cut to 5 tokens.
C24_ThemeThenDistinctTopicFirst ==
  both_retained(last_call) =>
     /\ tokens(last_call)[1] = <<"#">> \o theme_token(last_call)
     /\ theme_token(last_call) # topic_token(last_call) =>
           /\ Len(tokens(last_call)) >= 2
           /\ tokens(last_call)[2] = <<"#">> \o topic_token(last_call)
     /\ theme_token(last_call) = topic_token(last_call) =>
           \A i \in 2..Len(tokens(last_call)) :
              tokens(last_call)[i] # <<"#">> \o topic_token(last_call)

\* Six different tags were collected for a theme of a category and cut to 5:
\* the theme's and the topic's are the first two.
C24_Witness ==
  /\ both_retained(last_call)
  /\ find_hashtag_key(last_call.theme) # None
  /\ theme_token(last_call) # topic_token(last_call)
  /\ Len(tokens(last_call)) = 5
  /\ tokens(last_call)[2] = <<"#">> \o topic_token(last_call)

\* The tags generate_hashtags may sample for a theme whose topics come from
\* the list of theme_key: those of the same category and the general ones.
tags_of_category(theme_key) ==
  RangeOf(general_hashtags) \cup
    (IF theme_key = None THEN {} ELSE RangeOf(theme_hashtags(lower(theme_key))))

\* C25: For every theme, generate_topic_ideas and generate_hashtags select
\* the same category, or both none: the tags sampled for an entry are those
\* of the category whose topics the theme is given.
C25_OneCategoryPerTheme ==
  last_call.op \in { "generate_topic_ideas", "generate_hashtags", "content_entry" } =>
     /\ find_theme_key(last_call.theme) = None <=> find_hashtag_key(last_call.theme) = None
     /\ find_theme_key(last_call.theme) # None =>
           lower(find_theme_key(last_call.theme)) = find_hashtag_key(last_call.theme)
     /\ last_call.op = "generate_hashtags" =>
           \A toks \in { tokens(last_call) } :
           \A tags \in { tags_of_category(find_theme_key(last_call.theme)) } :
           \A i \in 1..Len(toks) :
              \/ toks[i] = <<"#">> \o theme_token(last_call)
              \/ toks[i] = <<"#">> \o topic_token(last_call)
              \/ Tail(toks[i]) \in tags

\* Hashtags were generated for a theme that names two categories, business
\* before fitness: its topics are the fitness ones and a fitness tag was
\* sampled.
C25_Witness ==
  /\ last_call.op = "generate_hashtags"
  /\ contains(lower(last_call.theme), hashtag_keys[3])
  /\ find_theme_key(last_call.theme) = theme_keys[1]
  /\ \E i \in 1..Len(tokens(last_call)) :
        Tail(tokens(last_call)[i]) \in RangeOf(theme_hashtags(hashtag_keys[1]))

\* C26: generate_topic_ideas terminates for every theme and day count: each
\* turn of the wrap-around loop makes the list of topics longer, never longer
\* than num_days, until it has num_days topics (also when num_days is several
\* times the length of the category's list), and it returns the topics of
\* generate_topic_ideas; every run of the rule-based pipeline reaches its
\* end.
C26_TopicsLoopTerminates ==
  /\ [][ (pc = "Cycling" /\ pc' = "Cycling") =>
            /\ Len(locals'.topics) > Len(locals.topics)
            /\ Len(locals'.topics) <= request.days
            /\ locals'.i = locals.i + 1 ]_vars
  /\ [](pc = "called" =>
          last_call.result = generate_topic_ideas(request.brand_theme, request.days))
  /\ [](stages # <<>> =>
          state.topics = generate_topic_ideas(request.brand_theme, request.days))
  /\ (request.entry = "rules") => <>(pc = "called")
  /\ (request.entry = "base") => <>(pc = "Done")

\* A call for more than three times the topics of the theme's category has
\* returned, the loop having taken more than three turns.
C26_Witness ==
  /\ pc = "called"
  /\ find_theme_key(request.brand_theme) # None
  /\ locals.i > 3
  /\ Len(last_call.result) = request.days
  /\ request.days > 3 * Len(themes(find_theme_key(request.brand_theme)))

\* C27: An enhanced workflow created with use_llm false, or with use_llm true
\* and a model that is missing or fails to load, never invokes the completion
\* service, and generate_enhanced_content_plan returns what the base
\* workflow returns for the same theme, day count and random choices: the
\* same topics, days, captions and hashtags.
C27_EnhancedWithoutModelIsBase ==
  /\ service_calls = 0 /\ method_calls = 0
  /\ pc = "Constructed" => ~ModelBacked
  /\ (Len(runs) = 2 /\ runs[2].returned) =>
        /\ runs[2].brand_theme = runs[1].brand_theme /\ runs[2].days = runs[1].days
        /\ runs[2].topics = runs[1].topics
        /\ Len(runs[2].content_plan) = Len(runs[1].content_plan)
        /\ runs[2].seed = runs[1].seed => runs[2].content_plan = runs[1].content_plan
        /\ \A i \in 1..Len(runs[2].content_plan) :
              /\ runs[2].content_plan[i].Day = runs[1].content_plan[i].Day
              /\ runs[2].content_plan[i].Topic = runs[1].content_plan[i].Topic

\* An enhanced workflow asked to use a model that failed to load has returned
\* the plan of two entries or more of the base workflow.
C27_Witness ==
  /\ pc = "Done" /\ request.entry = "enhanced"
  /\ llm_generator.created /\ llm_generator.loads = 1 /\ ~llm_generator.use_llm
  /\ Len(runs) = 2 /\ runs[2].returned
  /\ runs[2].seed = runs[1].seed
  /\ Len(runs[2].content_plan) > 1
  /\ runs[2].content_plan = runs[1].content_plan

=============================================================================
